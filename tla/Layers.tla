------------------------------- MODULE Layers -------------------------------
(***************************************************************************)
(* What happens to the fields of a record between a request and the row it *)
(* ends in, and between the row and an answer.  The server is built of     *)
(* layers (decoding, a handler's defaults, the build functions of the DTO  *)
(* files, the converters of the store, the generated statements), and each *)
(* of them lists the fields of every kind of record again by hand.         *)
(*                                                                         *)
(* A record is a function from names of fields to values.  A layer is a    *)
(* function from the fields it passes on to what it does with the value of *)
(* each: a field that a layer does not list is lost there.  Layers that    *)
(* follow each other make a layer.  Ids, workspaces, authors and times are *)
(* left out.                                                               *)
(***************************************************************************)
EXTENDS Naturals

CONSTANT Texts  \* what a field may hold

\* "null" is an absent field, a nil or a NULL, "empty" the zero value of the field's
\* type ('', 0, [], {} or false), "default" what the code puts in its place, and "x"
\* what creations write.
ASSUME TextsAssumption == {"null", "empty", "default", "x"} \subseteq Texts

\* A value is a text and how often it is encrypted.
Values == [text : Texts, seals : 0..2]

V(text) == [text |-> text, seals |-> 0]
Null    == V("null")
Empty   == V("empty")
Default == V("default")

---------------------------------------------------------------------------
(* What a layer does with a value. *)

Same == [v \in Values |-> v]

\* A pointer to a text, which is nil for the empty one.
NullIfEmpty == [v \in Values |-> IF v = Empty THEN Null ELSE v]

\* A text, a number or a list that is no pointer: the absence reads as zero.
EmptyIfNull == [v \in Values |-> IF v = Null THEN Empty ELSE v]

\* if x == "" { x = ... }
DefaultIfEmpty == [v \in Values |-> IF v \in {Null, Empty} THEN Default ELSE v]

\* What does not look at the value.
Always(value) == [v \in Values |-> value]

\* The encryption of a value that is there; two encryptions are as deep as it goes.
Seal ==
  [v \in Values |-> IF v \in {Null, Empty} \/ v.seals = 2
                    THEN v ELSE [v EXCEPT !.seals = @ + 1]]

\* The decryption; what is no ciphertext passes as it is.
Unseal == [v \in Values |-> IF v.seals = 0 THEN v ELSE [v EXCEPT !.seals = @ - 1]]

---------------------------------------------------------------------------
(* What an UPDATE, or the code before it, makes of an old and a new value. *)

Take == [old \in Values |-> [new \in Values |-> new]]

\* COALESCE(new, old), or a nil that leaves the old value.
KeepIfNull == [old \in Values |-> [new \in Values |-> IF new = Null THEN old ELSE new]]

\* if x == "" { x = old }
KeepIfEmpty ==
  [old \in Values |-> [new \in Values |-> IF new \in {Null, Empty} THEN old ELSE new]]

---------------------------------------------------------------------------
(* Layers. *)

On(fields, g) == [f \in fields |-> g]
Kept(fields)  == On(fields, Same)

\* a, and b for what a does not have.
a ++ b == [f \in DOMAIN a \cup DOMAIN b |-> IF f \in DOMAIN a THEN a[f] ELSE b[f]]

At(r, f) == IF f \in DOMAIN r THEN r[f] ELSE Null

Via(r, layer) == [f \in DOMAIN layer |-> layer[f][At(r, f)]]

\* a, then b.
a ** b ==
  [f \in DOMAIN b |-> [v \in Values |-> b[f][IF f \in DOMAIN a THEN a[f][v] ELSE Null]]]

\* r with its fields set from new by the rule of each.
Merged(rules, r, new) ==
  [f \in DOMAIN r |-> IF f \in DOMAIN rules THEN rules[f][r[f]][At(new, f)] ELSE r[f]]
=============================================================================
