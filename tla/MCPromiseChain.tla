-------------------------- MODULE MCPromiseChain --------------------------
(* Instances of PromiseChain for TLC. *)
EXTENDS PromiseChain

(* Every operation, with functions of both kinds, which return or throw, and
   a Catch that does not match.  The choices that do not interact are tied
   together to keep the set small. *)
Form(op, async, throws, matches) ==
    [op |-> op, async |-> async, throws |-> throws, matches |-> matches,
     rvalue |-> throws, void |-> ~async]

MixedForms ==
    {Form("then", FALSE, TRUE, TRUE), Form("then", TRUE, FALSE, TRUE),
     Form("catch", FALSE, FALSE, TRUE), Form("catch", TRUE, FALSE, FALSE),
     Form("finally", FALSE, FALSE, TRUE), Form("finally", TRUE, TRUE, TRUE)}

(* The form of the documentation's rule: a Then function that takes its value
   by const reference, returns a promise, and is attached to a temporary. *)
ReferenceForms ==
    {[op |-> "then", async |-> TRUE, throws |-> FALSE, matches |-> TRUE,
      rvalue |-> TRUE, void |-> FALSE]}
===========================================================================
