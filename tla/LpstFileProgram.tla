-------------------------- MODULE LpstFileProgram --------------------------
(***************************************************************************)
(* LpstChannels running programs that transfer records of an even size and *)
(* unlink no file that is open.  For these the machine implements Files.   *)
(***************************************************************************)
EXTENDS LpstChannels

Even(size) == RecordBytes(size) % 2 = 0

KeepsRules ==
  /\ Even(slot_CC')
  /\ \A i \in 1 .. MaxChannels : channels[i].fp # 0 => dir'[channels[i].path] # 0

DisciplinedSpec == Init /\ Even(slot_CC) /\ [][Next /\ KeepsRules]_vars

\* A file is what the disk holds, with what the channel that writes it has
\* not flushed yet.
Writers(f) == {i \in 1 .. MaxChannels : channels[i].fp = dir[f] /\ channels[i].buffer # NoBytes}

FileContent(f) ==
  IF Writers(f) = {} THEN data[dir[f]]
  ELSE LET i == CHOOSE j \in Writers(f) : TRUE IN Flushed(channels[i])[dir[f]]

OpenIds == {i \in 1 .. MaxChannels : channels[i].fp # 0}

Content == [f \in {g \in File : dir[g] # 0} |-> FileContent(f)]

OpenFiles ==
  [i \in OpenIds |-> [file |-> channels[i].path, pos |-> channels[i].position,
                      writable |-> channels[i].writable]]

Last == {active_channel_id} \cap OpenIds

Promise == INSTANCE Files WITH
  content <- Content, open <- OpenFiles, last <- Last, Channel <- 1 .. MaxChannels

\* A program reads back what it wrote, by stream or record, before and after
\* CLOSE, through the buffers of the streams and the positions the channel
\* table keeps, and FALSE names the channel it named last.
ImplementsFiles == Promise!Spec
=============================================================================
