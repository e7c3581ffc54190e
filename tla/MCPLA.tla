------------------------------- MODULE MCPLA -------------------------------
EXTENDS PLA

CONSTANTS sender, relay, app

MCFirstHops == <<sender, relay>>
MCOut == [n \in {sender, relay} |-> IF n = sender THEN {relay} ELSE {}]
MCModes == [n \in {sender, relay} |-> IF n = sender THEN {"light", "skip"} ELSE {"full"}]
MCTerms(rights) == [rights |-> rights, notBefore |-> 0, notAfter |-> 2]
(* Certificates managed; packets reordered; numbers far apart. *)
MCBounds ==
  {[keys |-> 3, certs |-> 2, signed |-> 2, net |-> 1, time |-> 1,
    terms |-> {MCTerms(Rights)}, rids |-> {"r1"}],
   [keys |-> 2, certs |-> 1, signed |-> 3, net |-> 2, time |-> 1,
    terms |-> {MCTerms(Rights)}, rids |-> {}],
   [keys |-> 2, certs |-> 1, signed |-> 4, net |-> 1, time |-> 1,
    terms |-> {MCTerms(Rights), MCTerms({"traffic"})}, rids |-> {}]}
============================================================================
