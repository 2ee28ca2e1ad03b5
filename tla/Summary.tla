------------------------------ MODULE Summary ------------------------------
(***************************************************************************)
(* The text of a mail with documents: what the model writes, the check of  *)
(* summary_is_valid and the template it falls back to                      *)
(* (app/llm/anthropic_client.py, app/llm/prompts.py).                      *)
(*                                                                         *)
(* A text is reduced to the facts it states.  The check looks for each     *)
(* fact as a part of the text, so that a longer numeral passes for one it  *)
(* ends with ("13 Exhibits" contains "3 Exhibits"), and a longer matter    *)
(* number for one it begins with.                                          *)
(***************************************************************************)
EXTENDS Naturals, Sequences

CONSTANTS
  Matters,  \* matter numbers, as sequences of digits
  Types,    \* document types
  Printed,  \* numbers that a text may state
  None      \* no text, no link

ASSUME TextAssumption ==
  /\ Matters \subseteq Seq(0 .. 9)
  /\ Printed \subseteq Nat

Links == {None, "url"}

(* What a text states: "k of the n type", a number per type, a link. *)
Text == [matter : Matters, counts : [Types -> Printed], k : Printed,
         n : Printed, type : Types, link : Links]

ASSUME NoneAssumption == None \notin Text /\ None \notin Matters /\ None # "url"

(* The power of ten with one zero for each digit of v. *)
Ten[v \in Nat] == IF v < 10 THEN 10 ELSE 10 * Ten[v \div 10]

(* The numeral of w is that of v, or ends with it. *)
EndsWith(w, v) == w = v \/ w % Ten[v] = v

(* The matter number w is m, or begins with it. *)
BeginsWith(w, m) == w = m \/ \E i \in 1 .. Len(w) : SubSeq(w, 1, i) = m

(* Mutant of summary_is_valid: no count is looked at. *)
ValidButCounts(text, facts) ==
  /\ text # None
  /\ BeginsWith(text.matter, facts.matter)
  /\ <<text.k, text.n, text.type>> = <<facts.k, facts.n, facts.type>>
  /\ facts.link # None => text.link = facts.link

(* The numbers of "k of the n type" are matched whole, a count is not.  The  *)
(* phrase itself contains "n type", so that the count of the type that was   *)
(* asked for is always found, whatever number the text states for it.        *)
summary_is_valid(text, facts) ==
  /\ text # None
  /\ BeginsWith(text.matter, facts.matter)
  /\ <<text.k, text.n, text.type>> = <<facts.k, facts.n, facts.type>>
  /\ \A t \in Types \ {facts.type} : EndsWith(text.counts[t], facts.counts[t])
  /\ facts.link # None => text.link = facts.link

(* The template states the facts as they are. *)
render_success_body(facts) == facts

(* What is mailed when the model wrote "text", or None when it failed. *)
summarize(text, facts) ==
  IF summary_is_valid(text, facts) THEN text ELSE render_success_body(facts)

=============================================================================
