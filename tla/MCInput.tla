------------------------------- MODULE MCInput -------------------------------
(* Instances of ConversationInput: which bounds are combined.              *)
EXTENDS ConversationInput

Budget(messages, edits, decisions, stops, steers, faults, crashes) ==
  [messages |-> messages, edits |-> edits, decisions |-> decisions, stops |-> stops,
   steers |-> steers, faults |-> faults, crashes |-> crashes]

\* Three messages; an edit, two faults and a crash; two decisions, a Stop and a
\* crash; an edit and a Stop.
Combinations ==
  {Budget(3, 1, 1, 0, 1, 1, 0), Budget(2, 1, 1, 0, 1, 2, 1),
   Budget(2, 0, 2, 1, 1, 1, 1), Budget(2, 1, 1, 1, 1, 1, 0)}
=============================================================================
