----------------------------- MODULE ConfigFile -----------------------------
(***************************************************************************)
(* How conmon and sysmon read a configuration: one document of YAML, with  *)
(* no field the program does not know, in which a duration is a string.    *)
(* A string is a record of its text, "" for blank, and of whether it is    *)
(* padded with white space, which strings.TrimSpace removes.  A duration   *)
(* as written is a record of its form and of the value it would parse to.  *)
(***************************************************************************)
EXTENDS Integers, Sequences

Text == [text : STRING, pad : BOOLEAN]
Written == [form : {"blank", "parsed", "other"}, value : Int]

\* A sequence, of whatever it is of.
IsList(s) == s \in Seq({s[i] : i \in DOMAIN s})

Trim(s) == [s EXCEPT !.pad = FALSE]
Blank(s) == s.text = ""

\* The decoder takes the first document and then must meet the end.
FileOK(f) == f.readable /\ f.known /\ f.documents = 1

\* Duration.UnmarshalYAML: a blank or null scalar is zero, a negative duration
\* is refused, as is what does not parse or is no scalar.
DurationOK(d) == d.form = "blank" \/ (d.form = "parsed" /\ d.value >= 0)
DurationOf(d) == IF d.form = "blank" THEN 0 ELSE d.value
=============================================================================
