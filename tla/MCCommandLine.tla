---------------------------- MODULE MCCommandLine ----------------------------
(* A small instance of the composed product for TLC.                        *)
EXTENDS CommandLine

MCConfigValue == {[default |-> "p", resolves |-> TRUE, executable |-> TRUE],
                  [default |-> "none", resolves |-> FALSE, executable |-> TRUE]}
==============================================================================
