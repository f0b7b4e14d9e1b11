------------------------- MODULE MCProtocolDecoder -------------------------
(* Model checking of ProtocolDecoder: one long label, so that the cuts     *)
(* inside a name leave room for what would be read as a record; what follows   *)
(* the header with a line of each spelling, and with two.                  *)
EXTENDS ProtocolDecoder

MCHostLabels == { [i \in 1 .. 12 |-> 98] }
MCLetters == {"/", "e", "x", "b", "z"}
MCPaths == {<< "/" >>, << "/", "e" >>}
MCHostNames == {<< "e", "x" >>}
MCPhrases == {<< >>, << "e", " ", "x" >>}
MCHeaderFields == {<< >>, << "crlf", "x", " ", "e" >>}
MCRests ==
  LET Line(spelled) == << spelled, "z", "crlf" >>
  IN  {<< "crlf" >>, << "x", "crlf", "crlf" >>}
      \union { << "crlf", "b" >> \o Line(one) \o Line(another) : one, another \in LineEnds }
=============================================================================
