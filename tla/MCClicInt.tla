------------------------------ MODULE MCClicInt ------------------------------
(* Small instances of an interrupt's register word for TLC. *)
EXTENDS ClicInt

SetupsAndTear == {SetupIrq(l) : l \in Levels \ {0}} \cup {TearIrq}

(* What handlers may do to an interrupt that main sets up and tears down. *)
HandlerFunctions ==
  {f \in Functions : f[1].field = "ip" \/ f[1] = Set("pcs", TRUE)}

(* Others of every lower level, and at the highest level those with a      *)
(* lower number than this one.                                             *)
LowerOrTied == {o \in Rivals : o.level = MaxLevel => ~o.first}
=============================================================================
