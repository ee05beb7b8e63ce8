------------------------------ MODULE MCStartup ------------------------------
(***************************************************************************)
(* Instances of Startup: command lines of a few options, a name, an        *)
(* address and two numbers, which are names too.                           *)
(***************************************************************************)
EXTENDS Startup

Numbers == {"-1", "5"}
FewWords ==
  {"--midi-source", "--udp-source", "--udp-sink", "--key-sink",
   "--active-octaves", "--help", "piano", "bard:1"} \cup Numbers
FewAddresses == {"bard:1"}
FewNumbers ==
  [word \in FewWords |-> CASE word = "5" -> {5} [] word = "-1" -> {-1} [] OTHER -> {}]
=============================================================================
