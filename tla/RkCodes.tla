------------------------------- MODULE RkCodes --------------------------------
(***************************************************************************)
(* The codes of rk_common.cpp, one loop iteration per step: rk_crc16 and   *)
(* rk_crc32 by table, and RC4.  A word of a CRC is a function from bit     *)
(* positions, the highest first, to BOOLEAN.                               *)
(***************************************************************************)
EXTENDS Integers, Sequences, SequencesExt, Bitwise

CONSTANTS
    Messages,    \* sequences of bytes
    Keys,        \* RC4 keys: sequences of bytes; one of 16 bytes in the code
    N            \* RC4 works on 0..N-1: 256 in the code

VARIABLES
    phase,       \* "crc", "key", "crypt" or "done"
    width,       \* 16 or 32
    buf, pos,    \* the message, and how far the loop is
    word,        \* crc
    key, s, m_i, m_j,    \* of RC4
    plain, cipher    \* history: what was encrypted, and that it was

crcVars == <<width, word>>
rc4Vars == <<key, s, m_i, m_j, plain, cipher>>
vars == <<phase, buf, pos, crcVars, rc4Vars>>

-----------------------------------------------------------------------------
Bits(n, w) == [i \in 1..w |-> (n \div 2^(w - i)) % 2 = 1]
Plus(a, b) == [i \in DOMAIN a |-> a[i] # b[i]]
ShiftLeft(a, n) == [i \in DOMAIN a |-> IF i + n \in DOMAIN a THEN a[i + n] ELSE FALSE]
Top(a) == [i \in 1..8 |-> a[i]]
Zero(w) == [i \in 1..w |-> FALSE]

\* The two polynomials; the second is not the one of the standard CRC-32.
Poly(w) == IF w = 16 THEN Bits(4129, 16) ELSE Bits(1217, 16) \o Bits(3511, 16)

\* Mutant: the bit is looked at after the shift.
FeedLate(a, w) == LET c == ShiftLeft(a, 1) IN IF c[1] THEN Plus(c, Poly(w)) ELSE c

\* Eight times: shift, and add the polynomial if a one was shifted out.
Feed(a, w) == IF a[1] THEN Plus(ShiftLeft(a, 1), Poly(w)) ELSE ShiftLeft(a, 1)

\* crc16_tbl, crc32_tbl
Table(b, w) == FoldLeftDomain(LAMBDA c, i : Feed(c, w), b \o Zero(w - 8), b)

\* One byte of rk_crc16, rk_crc32.
crc_byte(c, byte, w) == Plus(ShiftLeft(c, 8), Table(Plus(Top(c), Bits(byte, 8)), w))
rk_crc(c, bytes, w) == FoldLeftDomain(LAMBDA r, i : crc_byte(r, bytes[i], w), c, bytes)

\* The word the callers start with: rk_crc16(0xffff, ..), rk_crc32(0, ..).
Start(w) == IF w = 16 THEN [i \in 1..16 |-> TRUE] ELSE Zero(32)

CrcStep ==
    /\ phase = "crc" /\ pos =< Len(buf)
    /\ word' = crc_byte(word, buf[pos], width)
    /\ pos' = pos + 1
    /\ UNCHANGED <<phase, buf, width, rc4Vars>>

-----------------------------------------------------------------------------
Swap(f, i, j) == [f EXCEPT ![i] = f[j], ![j] = f[i]]

\* rc4_ctx::setkey
SetKey ==
    /\ phase = "key" /\ m_i < N
    /\ LET j == (m_j + s[m_i] + key[(m_i % Len(key)) + 1]) % N
       IN m_j' = j /\ s' = Swap(s, m_i, j)
    /\ m_i' = m_i + 1
    /\ UNCHANGED <<phase, buf, pos, crcVars, key, plain, cipher>>

KeyIsSet ==
    /\ phase = "key" /\ m_i = N
    /\ phase' = "crypt" /\ m_i' = 0 /\ m_j' = 0 /\ pos' = 1
    /\ UNCHANGED <<buf, crcVars, key, s, plain, cipher>>

\* rc4_ctx::crypt
Crypt ==
    /\ phase = "crypt" /\ pos =< Len(buf)
    /\ LET i == (m_i + 1) % N
           j == (m_j + s[i]) % N
           t == Swap(s, i, j)
       IN /\ m_i' = i /\ m_j' = j /\ s' = t
          /\ buf' = [buf EXCEPT ![pos] = @ ^^ t[(t[i] + t[j]) % N]]
    /\ pos' = pos + 1
    /\ UNCHANGED <<phase, crcVars, key, plain, cipher>>

\* The block is done; who reads it starts with the same key.
Again ==
    /\ phase = "crypt" /\ pos > Len(buf)
    /\ phase' = IF cipher THEN "done" ELSE "key"
    /\ cipher' = TRUE
    /\ s' = [i \in 0..N - 1 |-> i] /\ m_i' = 0 /\ m_j' = 0
    /\ UNCHANGED <<buf, pos, crcVars, key, plain>>

Init ==
    /\ buf \in Messages /\ pos = 1
    /\ s = [i \in 0..N - 1 |-> i] /\ m_i = 0 /\ m_j = 0 /\ plain = buf /\ cipher = FALSE
    /\ \/ phase = "crc" /\ width \in {16, 32} /\ word = Start(width) /\ key = << >>
       \/ phase = "key" /\ width = 16 /\ word = Start(16) /\ key \in Keys

Next == CrcStep \/ SetKey \/ KeyIsSet \/ Crypt \/ Again

Spec == Init /\ [][Next]_vars

-----------------------------------------------------------------------------
\* Long division over the field of two elements, bit after bit, of the message and a
\* word of zeros; the first word is added to its beginning.
Message == FlattenSeq([i \in DOMAIN buf |-> Bits(buf[i], 8)])
DivideAt(m, k, w) == IF m[k] THEN [i \in DOMAIN m |-> IF i \in k + 1..k + w THEN m[i] # Poly(w)[i - k] ELSE m[i]] ELSE m
Remainder(m, w) ==
    LET r == FoldLeftDomain(LAMBDA acc, k : DivideAt(acc, k, w), m, SubSeq(m, 1, Len(m) - w))
    IN [i \in 1..w |-> r[Len(m) - w + i]]

\* rk_crc16 and rk_crc32, by table and by byte, are the remainder of the division by
\* the polynomial.
CrcIsDivision ==
    (phase = "crc" /\ pos > Len(buf)) =>
        word = Remainder(Plus(Message \o Zero(width), Start(width) \o Zero(Len(Message))), width)

\* A frame of maskrom_upload_memory, the high byte of the CRC before the low one, has
\* the CRC 0, and keeps it when zeros follow: what the upload relies on.
FrameLeavesZero ==
    (phase = "crc" /\ pos > Len(buf) /\ width = 16) =>
        LET Byte(k) == FoldLeftDomain(LAMBDA n, i : 2 * n + (IF word[k + i] THEN 1 ELSE 0), 0, Zero(8))
        IN \A zeros \in {<< >>, <<0>>} : rk_crc(word, <<Byte(0), Byte(8)>> \o zeros, 16) = Zero(16)

\* What was encrypted is read again with the same key, and the state of RC4 remains
\* a permutation.
Rc4Undoes ==
    /\ {s[i] : i \in 0..N - 1} = 0..N - 1
    /\ phase = "done" => buf = plain
=============================================================================
