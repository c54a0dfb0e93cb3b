---------------------------- MODULE MCHostFiles ----------------------------
(* An instance of HostFiles: two binaries, two releases, one configuration  *)
(* file.                                                                    *)
EXTENDS HostFiles

CONSTANTS ctl, runner

MCOrder == <<ctl, runner>>

=============================================================================
