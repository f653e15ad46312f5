--------------------------- MODULE MCDaemonConfig ---------------------------
(* DaemonConfig with five builds of three versions, for TLC. *)
EXTENDS DaemonConfig

CONSTANTS old, bare, new, rebuilt, undigested

Builds == {old, bare, new, rebuilt, undigested}

(* Two versions are built twice; a build of the first has lost its file. *)
Numbers == [p \in Builds |-> CASE p \in {old, bare} -> 1 [] p \in {new, rebuilt} -> 2
                               [] p = undigested -> 3]
ConfigFiles == [p \in Builds |-> CASE p = old -> {"config_1"} [] p = bare -> {}
                                   [] OTHER -> {"config_1", "config_2"}]

(* One architecture in both forms; two architectures; one of them plain. *)
SomeLayouts == {{<<"amd64", "gz">>, <<"amd64", "plain">>},
                {<<"all", "gz">>, <<"amd64", "gz">>},
                {<<"all", "plain">>, <<"amd64", "gz">>}}
=============================================================================
