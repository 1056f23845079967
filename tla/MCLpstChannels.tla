--------------------------- MODULE MCLpstChannels ---------------------------
(* The OBJ file and one other.                                              *)
EXTENDS LpstFileProgram

CONSTANTS obj, f1, z, b

MCFile == {obj, f1}
MCNames == {f1}
MCByte == {z, b}
MCImage == <<b>>

\* No guard and no property reads the reply of an earlier instruction, so two
\* states that differ only in it have the same future.
Lasting == <<dir, data, channels, next_channel_id, active_channel_id, slot_CC>>
=============================================================================
