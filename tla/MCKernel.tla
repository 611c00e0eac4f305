------------------------------ MODULE MCKernel ------------------------------
(* A small instance of Kernel.tla: a path of two levels, one below a directory *)
(* that does not exist, and a relative one.                                    *)
EXTENDS Kernel

MCIntMin == -3
MCSubDirs == <<"u/">>
MCStrings == {<<"/", "u", "/", "a">>, <<"/", "n", "/", "a">>, <<"b">>}
=============================================================================
