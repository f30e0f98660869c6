-------------------------- MODULE MCMemoryCommands --------------------------
(* Small instance of MemoryCommands: two pages of four bytes, bytes 0, 1   *)
(* and the trap byte 2, two processes, breakpoints at the end of the first *)
(* page.                                                                   *)
EXTENDS MemoryCommands

CONSTANTS Other

MCProcs == {Current, Other}

(* The bytes of addresses PageSize .. 3 * PageSize - 1; 5 and 7 hold 0xCC. *)
MCImage == [a \in Addr |-> <<0, 2, 0, 2, 0, 0, 0, 0>>[a - PageSize + 1]]

MCMemImages == {MCImage}

MCBpTables == {[a \in {5} |-> 1], [a \in {7} |-> 1], [a \in {5, 7} |-> 1]}

(* The edit runs need one table: edits do not consult it.                  *)
MCBpTablesEdit == {[a \in {7} |-> 1]}

(* The combined run: one table with a breakpoint at a read's start and one *)
(* inside its range.                                                       *)
MCBpTablesMixed == {[a \in {5, 7} |-> 1]}

MCEditEnum == [b \in {"BYTE", "DWORD", "QWORD"} |->
                 CASE b = "BYTE" -> 0 [] b = "DWORD" -> 1 [] b = "QWORD" -> 2]
=============================================================================
