-------------------------- MODULE MCServiceControl --------------------------
(***************************************************************************)
(* An instance of ServiceControl for TLC: the dialog and one prompt.       *)
(***************************************************************************)
EXTENDS ServiceControl

MCDialogs == {"dialog"}
MCShells == {"prompt"}

MCCommands ==
  {<<"install", <<>>>>, <<"remove", <<>>>>, <<"reset", <<>>>>,
   <<"set", << <<"rtt", 9>>, <<"plr", 3>>, <<"rtt", 5>> >> >>,
   <<"set", << <<"loss", 1>>, <<"rtt", 4>> >> >> }

MCProfiles == {[rtt |-> 7, bps |-> 384000]}

MCMaxStop == [p \in Tools |-> IF p \in Dialogs THEN 1 ELSE 2]
=============================================================================
