------------------------------ MODULE UsbConfig -----------------------------
(***************************************************************************)
(* The descriptors that the Linux backend keeps of a device, from the      *)
(* first read of the file with them to the configuration a caller asks     *)
(* for: initialize_device, parse_config_descriptors and the getters of     *)
(* linux_usbfs.c, with the functions of descriptor.c that call them.       *)
(* Other programs set the configuration meanwhile, and the device may go.  *)
(*                                                                         *)
(* The file is a device descriptor and its configurations.  A              *)
(* configuration is [value, total, real, broken]: bConfigurationValue,     *)
(* wTotalLength, its bytes in sysfs, and whether a descriptor in it is     *)
(* invalid.  In sysfs the configurations are `real' bytes apart, in usbfs  *)
(* `total'.                                                                *)
(***************************************************************************)
EXTENDS Integers, Sequences, FiniteSets, SequencesExt, FiniteSetsExt

CONSTANTS Files,   \* [configs, cut, num]: the configurations, bytes missing, bNumConfigurations
          Chunk,   \* desc_read_length
          Changes  \* bound on the configurations that others set

VARIABLES pc, file, sysfs,       \* where the program is; the file; is there a sysfs_dir?
          alloc, read,           \* bytes allocated for the descriptors, and read
          cache,                 \* priv->config_descriptors: [off, len, config]
          active,                \* priv->active_config
          now, gone, changes,    \* device: its configuration, -1 for none; is it unplugged?
          ask, first, result,    \* a caller: what it wants, what it read at first, what it got
          changed                \* history: the configuration was set since the call began

fileVars == <<file, sysfs>>
cacheVars == <<alloc, read, cache, active>>
deviceVars == <<now, gone, changes>>
callVars == <<ask, first, result, changed>>
vars == <<pc, fileVars, cacheVars, deviceVars, callVars>>

DeviceLen == 18
ConfigLen == 9
MaxConfigs == 8

-----------------------------------------------------------------------------
Configs == file.configs
Apart(c) == IF sysfs THEN Configs[c].real ELSE Configs[c].total
Place(c) == DeviceLen + FoldLeft(LAMBDA sum, x : sum + x, 0, [x \in 1 .. c - 1 |-> Apart(x)])
FileLen == Place(Len(Configs) + 1) - file.cut

\* The file is read until a read gives less than there is room for; a read, or the
\* growing of the buffer, may fail.
ReadDescriptors ==
    /\ pc = "read"
    /\ alloc' = alloc + Chunk
    /\ \/ /\ ~gone
          /\ read' = Min({alloc', FileLen})
          /\ pc' = IF read' = alloc' THEN "read" ELSE IF read' >= DeviceLen THEN "parse" ELSE "failed"
       \/ pc' = "failed" /\ UNCHANGED read
    /\ UNCHANGED <<fileVars, cache, active, deviceVars, callVars>>

-----------------------------------------------------------------------------
(* parse_config_descriptors *)

Off == IF cache = <<>> THEN DeviceLen ELSE Last(cache).off + Last(cache).len
Remaining == read - Off
Nth == Len(cache) + 1

\* seek_to_next_config: 0 when there is none, or something invalid before it.
SeekToNextConfig == IF Nth < Len(Configs) /\ ~Configs[Nth].broken /\ Remaining >= Configs[Nth].real + 2
                    THEN Configs[Nth].real ELSE 0

\* Mutant: wTotalLength is believed where there is a next one.
LengthAsClaimed == CASE sysfs /\ Nth < file.num -> IF SeekToNextConfig = 0 THEN 0 ELSE Configs[Nth].total
                     [] sysfs /\ Nth = file.num -> Remaining
                     [] ~sysfs -> Min({Configs[Nth].total, Remaining})

\* How long the configuration is: sysfs shows it, usbfs has it at its wTotalLength.
ConfigLength == CASE sysfs /\ Nth < file.num -> SeekToNextConfig
                  [] sysfs /\ Nth = file.num -> Remaining
                  [] ~sysfs -> Min({Configs[Nth].total, Remaining})

ParseConfig ==
    /\ pc = "parse" /\ Len(cache) < file.num
    /\ IF Remaining < ConfigLen \/ Configs[Nth].total < ConfigLen \/ ConfigLength = 0
       THEN pc' = "failed" /\ UNCHANGED cache
       ELSE cache' = Append(cache, [off |-> Off, len |-> ConfigLength, config |-> Nth]) /\ UNCHANGED pc
    /\ UNCHANGED <<fileVars, alloc, read, active, deviceVars, callVars>>

FirstValue == IF cache = <<>> THEN -1 ELSE Configs[cache[1].config].value
HasConfig0 == \E c \in DOMAIN cache : Configs[cache[c].config].value = 0

\* Without sysfs the active configuration is asked for once: of the device if it may be
\* opened for writing and answers.
CacheActive ==
    /\ pc = "parse" /\ Len(cache) = file.num
    /\ IF sysfs THEN pc' = "sanitize" /\ UNCHANGED active
       ELSE \/ active' = FirstValue /\ pc' = "sanitize"
            \/ gone /\ pc' = "failed" /\ UNCHANGED active
            \/ /\ ~gone /\ pc' = "sanitize"
               /\ active' = IF now > 0 THEN now ELSE IF HasConfig0 THEN 0 ELSE -1
    /\ UNCHANGED <<fileVars, alloc, read, cache, deviceVars, callVars>>

\* usbi_sanitize_device
SanitizeDevice ==
    /\ pc = "sanitize"
    /\ pc' = IF file.num > MaxConfigs THEN "failed" ELSE "ready"
    /\ UNCHANGED <<fileVars, cacheVars, deviceVars, callVars>>

-----------------------------------------------------------------------------
(* The getters: a configuration is [config, size], an error has config 0. *)

NotFound == [config |-> 0, size |-> 0]
NoAsk == [how |-> "none", arg |-> 0]
Copy(c, len) == [config |-> cache[c].config, size |-> Min({len, cache[c].len})]

\* op_get_config_descriptor
ByIndex(c, len) == IF c > file.num THEN NotFound ELSE Copy(c, len)

\* op_get_config_descriptor_by_value: the first with that value, whole.
ByValue(v) == LET match == {c \in DOMAIN cache : Configs[cache[c].config].value = v}
              IN IF match = {} THEN NotFound ELSE Copy(Min(match), cache[Min(match)].len)

\* op_get_active_config_descriptor
Active(len) == LET v == IF sysfs THEN now ELSE active
                   whole == ByValue(v)
               IN IF v = -1 \/ (sysfs /\ gone) THEN NotFound ELSE [whole EXCEPT !.size = Min({len, @})]

\* A call: a configuration by its index or value, or the active one.
Ask ==
    /\ pc = "ready"
    /\ \E how \in {"index", "value", "active"}, arg \in 0..3 :
         /\ how = "index" => arg > 0
         /\ how = "active" => arg = 0
         /\ ask' = [how |-> how, arg |-> arg]
    /\ pc' = "asked" /\ changed' = FALSE /\ first' = NotFound /\ result' = NotFound
    /\ UNCHANGED <<fileVars, cacheVars, deviceVars>>

\* The head of the configuration tells how long it is.
ReadHead ==
    /\ pc = "asked"
    /\ LET c == CASE ask.how = "index" -> ByIndex(ask.arg, ConfigLen)
                  [] ask.how = "value" -> ByValue(ask.arg)
                  [] ask.how = "active" -> Active(ConfigLen)
       IN IF ask.how = "value" \/ c.config = 0 THEN result' = c /\ pc' = "answered" /\ UNCHANGED first
          ELSE first' = c /\ pc' = "second" /\ UNCHANGED result
    /\ UNCHANGED <<fileVars, cacheVars, deviceVars, ask, changed>>

\* Room for that much, and the configuration is asked for again.
ReadWhole ==
    /\ pc = "second"
    /\ result' = LET room == Configs[first.config].total
                 IN IF ask.how = "index" THEN ByIndex(ask.arg, room) ELSE Active(room)
    /\ pc' = "answered"
    /\ UNCHANGED <<fileVars, cacheVars, deviceVars, ask, first, changed>>

Answered ==
    /\ pc = "answered" /\ pc' = "ready"
    /\ ask' = NoAsk /\ first' = NotFound /\ result' = NotFound /\ changed' = FALSE
    /\ UNCHANGED <<fileVars, cacheVars, deviceVars>>

-----------------------------------------------------------------------------
\* Another program sets the configuration, or the device goes.
OtherConfig ==
    /\ ~gone /\ changes < Changes /\ changes' = changes + 1
    /\ now' \in ({Configs[c].value : c \in DOMAIN Configs} \cup {-1}) \ {now}
    /\ changed' = TRUE
    /\ UNCHANGED <<pc, fileVars, cacheVars, gone, ask, first, result>>

Unplug ==
    /\ ~gone /\ gone' = TRUE
    /\ UNCHANGED <<pc, fileVars, cacheVars, now, changes, callVars>>

Init ==
    /\ file \in Files /\ sysfs \in BOOLEAN
    /\ pc = "read" /\ alloc = 0 /\ read = 0 /\ cache = <<>> /\ active = -1
    /\ now \in {file.configs[c].value : c \in DOMAIN file.configs} \cup {-1}
    /\ gone = FALSE /\ changes = 0
    /\ ask = NoAsk /\ first = NotFound /\ result = NotFound /\ changed = FALSE

Next == ReadDescriptors \/ ParseConfig \/ CacheActive \/ SanitizeDevice
        \/ Ask \/ ReadHead \/ ReadWhole \/ Answered \/ OtherConfig \/ Unplug

Spec == Init /\ [][Next]_vars

-----------------------------------------------------------------------------
\* Properties.

TypeOK ==
    /\ read \in 0..alloc /\ alloc % Chunk = 0 /\ active \in -1..255
    /\ \A c \in DOMAIN cache : cache[c].off \in DeviceLen..read /\ cache[c].config \in DOMAIN Configs
    /\ first.config \in 0..Len(Configs) /\ result.config \in 0..Len(Configs)

\* The file is read to its end, however its length lies to that of the reads.
WholeFileRead == pc \in {"parse", "sanitize", "ready", "asked", "second", "answered"} => read = FileLen

\* The configurations that are kept lie in what was read, each where the file has it
\* and behind the one before, and each has at least its own descriptor.
ConfigsInPlace ==
    /\ \A c \in DOMAIN cache : /\ cache[c].off = Place(cache[c].config) /\ cache[c].config = c
                               /\ cache[c].len >= ConfigLen /\ cache[c].off + cache[c].len <= read
    /\ pc \in {"ready", "asked", "second", "answered"} => Len(cache) = file.num

\* However the configuration changes between the two reads of a call, no more is
\* copied than the first one said there would be, nor more than there is.
CopyFits ==
    pc = "answered" /\ result.config # 0 =>
      /\ result.size <= cache[result.config].len
      /\ first.config # 0 => result.size <= Configs[first.config].total

\* A call that ends well gives the configuration it was asked for, and, unless another
\* program set one meanwhile, all of it that its wTotalLength covers.
AskedForIsGiven ==
    pc = "answered" /\ result.config # 0 =>
      /\ ask.how = "index" => result.config = ask.arg
      /\ ask.how = "value" => Configs[result.config].value = ask.arg
      /\ ask.how = "active" /\ ~changed => Configs[result.config].value = (IF sysfs THEN now ELSE active)
      /\ ~changed \/ ask.how # "active" =>
           result.size >= Min({cache[result.config].len, Configs[result.config].total})
=============================================================================
