--------------------------- MODULE OutputRegister ---------------------------
(***************************************************************************)
(* What the publication of generator artifacts promises for one output     *)
(* (source, configuration, options and output kind): a register that holds *)
(* at most one current artifact set.  A set becomes current in one step,   *)
(* which retires the one before it, and a retired set never comes back.    *)
(***************************************************************************)
CONSTANT Sets      \* artifact sets of the output

VARIABLES current, retired

Init == current = {} /\ retired = {}

Publish(s) ==
  /\ s \notin current \cup retired
  /\ current' = {s}
  /\ retired' = retired \cup current

\* Its stored bytes failed a check; it may be published again.
Withdraw(s) ==
  /\ s \in current
  /\ current' = current \ {s}
  /\ UNCHANGED retired

Retire(s) ==
  /\ s \notin retired
  /\ current' = current \ {s}
  /\ retired' = retired \cup {s}

Next == \E s \in Sets : Publish(s) \/ Withdraw(s) \/ Retire(s)

Spec == Init /\ [][Next]_<<current, retired>>

=============================================================================
