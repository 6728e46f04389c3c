----------------------------- MODULE TextProbe -----------------------------
(* A text that is examined: a state that holds it and does nothing.         *)
EXTENDS CommandList

VARIABLE probe

TextInit == probe \in [kind: {"text"}, text: Seq(0..255)]
TextSpec == TextInit /\ [][FALSE]_probe

\* Splitting at separators and parsing words are two scans that must agree on where a quote, an
\* escape and a comment begin and end (splitSequence, ParseWords).
ScansAgree == probe.kind = "text" => SplitsAsItParses(probe.text)
=============================================================================
