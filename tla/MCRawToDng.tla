----------------------------- MODULE MCRawToDng -----------------------------
(***************************************************************************)
(* Pictures for the model checker: of every raw type, of up to MaxRows rows*)
(* and MaxGroups groups, with and without room behind a row and a rest     *)
(* behind the last one.  The bytes are of three kinds; in the first two,   *)
(* neighbours differ in their high and in their low bits.                  *)
(***************************************************************************)
EXTENDS RawToDng

CONSTANTS MaxRows, MaxGroups, Rooms

Bytes(n) ==
    {[j \in 0..(n - 1) |-> (37 * j + 11) % 256],
     [j \in 0..(n - 1) |-> (201 * j + 94) % 256],
     [j \in 0..(n - 1) |-> 255]}

\* For Mipi16 the room is the rest of the eight byte words a row is made of
\* where the profile has no row size.
Layouts ==
    {[type |-> t, groups |-> k, h |-> h, rowSize |-> IF sized THEN row ELSE 0,
      stride |-> row, size |-> h * row + rest] :
        <<t, k, h, room, sized, rest, row>> \in
            {<<t, k, h, room, sized, rest, row>> \in
                RawTypes \X (1..MaxGroups) \X (1..MaxRows) \X Rooms \X BOOLEAN
                    \X (0..1) \X (1..(8 * MaxGroups + 8)) :
                /\ rest < h
                /\ sized => t = Mipi16
                /\ row = IF t \in StripTypes \/ sized
                         THEN k * GroupBytes[t] + room
                         ELSE IF t = Mipi16 THEN 8 * ((20 * k + 31) \div 32)
                         ELSE k * GroupBytes[t]}}

MCPictures ==
    UNION {{[type |-> l.type, groups |-> l.groups, h |-> l.h,
             rowSize |-> l.rowSize, stride |-> l.stride, size |-> l.size,
             bytes |-> b] : b \in Bytes(l.size)} : l \in Layouts}
=============================================================================
