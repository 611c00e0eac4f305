--------------------------- MODULE MCPersistence ---------------------------
(* A small instance of Persistence.tla.  As in the real image, whole entries  *)
(* of "/" lie in the first sector and entries of "usr/" straddle sectors.     *)
EXTENDS Persistence

MCSubDirs == <<"usr/">>
MCPaths == {<<"usr/", "a">>, <<"usr/", "b">>, <<"c">>, <<"d">>}

\* Code and data, the second segment with a bss; a note that is not loaded.
MCSegments == <<[type |-> "PT_LOAD", off |-> 3, paddr |-> 19, filesz |-> 10, memsz |-> 10],
                [type |-> "PT_NOTE", off |-> 3, paddr |-> 19, filesz |-> 30, memsz |-> 30],
                [type |-> "PT_LOAD", off |-> 14, paddr |-> 62, filesz |-> 7, memsz |-> 12]>>
MCUserMemory == 0 .. 95
=============================================================================
