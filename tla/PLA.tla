-------------------------------- MODULE PLA --------------------------------
(***************************************************************************)
(* Packet level authentication: the certificates, headers and checks of    *)
(* libpla (src/addons/libpla/src/{libpla,libpla_cert,libpla_connections,   *)
(* libpla_io,placonf}.c) and the Click element that uses them              *)
(* (src/src/pla/pla.cc).  One process signs, on every outgoing link with a *)
(* number of its own; the nodes of the network verify each for itself and  *)
(* forward; applications verify with libpla_pla_receive.  The network      *)
(* loses, duplicates and reorders packets, and processes restart.          *)
(*                                                                         *)
(* The curve is that of EllipticCurve: here a private key is a number, its *)
(* public key the same number, and an implicit certificate names its key,  *)
(* the key that issued it and the identity hash it was computed with,      *)
(* without which it gives another public key.  A hash is what it is taken  *)
(* over.  The clock is common to all, and validity times are in its unit.  *)
(***************************************************************************)
EXTENDS Integers, Sequences, FiniteSets

CONSTANTS
  Node,           \* the nodes that run the PLA element
  App,            \* applications that verify with libpla_pla_receive
  FirstHops,      \* the links of the signing process, a sequence of nodes
  Out,            \* the nodes each node forwards to
  Modes,          \* the verifications VER_PROB and LIGHT_VER_PROB leave a node
  WindowSize,     \* PLA_WINDOW_SIZE
  TimestampDiff,  \* PLA_TIMESTAMP_DIFF
  Summer,         \* the times at which daylight saving is in force
  Hour,           \* by how much it moves the clock on the wall
  Rid, NoRid,     \* rendezvous identifiers
  Bounds          \* what a behaviour is limited to: keys drawn, certificates
                  \* held, signatures, packets on their way, time; and the
                  \* terms and the rids that certificates are asked for

Rights == {"deleg", "traffic", "control"}
Terms == [rights : SUBSET Rights, notBefore : Int, notAfter : Int]
Limits == [keys : Nat, certs : Nat, signed : Nat, net : Nat, time : Nat,
           terms : SUBSET Terms, rids : SUBSET Rid]

ASSUME PLAAssumption ==
  /\ WindowSize \in Nat \ {0}
  /\ TimestampDiff \in Nat
  /\ \A b \in Bounds : b \in Limits
  /\ IsFiniteSet(Node)
  /\ NoRid \notin Rid /\ Node \cap App = {}
  /\ FirstHops \in Seq(Node)
  /\ \A n \in Node : Out[n] \subseteq Node

VARIABLES
  bound,    \* the bounds of this behaviour
  now,      \* the time
  file,     \* the certificate files, "ttp" and "user"
  certs,    \* pla_certificate_list_head of the signing process, head first
  default,  \* default_certificate: "none", "listed" (the last of certs), "freed"
  conn,     \* connection_list of every verifying process, by key
  net,      \* packets on their way
  signed,   \* history: how many signatures were made
  issued,   \* history: what every key was asked for
  seen      \* history: the numbers that passed since a process started

vars == <<bound, now, file, certs, default, conn, net, signed, issued, seen>>

None == [empty |-> TRUE]
Root == 0
Key == DOMAIN issued
NextKey == Len(issued) + 1

-----------------------------------------------------------------------------
(* Certificates. *)

\* Mutant: the rid is left out.
NoRid_id_hash(ci) ==
  <<NoRid, ci.identity, ci.notBefore, ci.notAfter, ci.rights, ci.deleg>>
calculate_id_hash(ci) ==
  <<ci.rid, ci.identity, ci.notBefore, ci.notAfter, ci.rights, ci.deleg>>

(* What the receiver hashes: the rid it was given, if any, and the header's *)
(* bytes after the signature.                                               *)
HeaderIdHash(rid, h) ==
  <<rid, h.identity, h.notBefore, h.notAfter, h.rights, h.deleg>>

cert_to_bin(issuer, rho, ci) ==
  <<issuer, rho, ci.identity, ci.rights, ci.deleg, ci.notBefore, ci.notAfter>>

(* ec_create_key: a new key, extracted from the issuer's. *)
create_key(ttp, ci) == [key |-> NextKey, by |-> ttp, id |-> calculate_id_hash(ci)]
libpla_sign(sigma, hash) == [key |-> sigma, over |-> hash]
libpla_verify(sig, rho, ttp, hash, id) ==
  sig.key = rho.key /\ sig.over = hash /\ rho.by = ttp /\ rho.id = id

(* Times are written as the clock on the wall shows them and read back     *)
(* with tm_isdst = 0.                                                      *)
Text(t) == IF t \in Summer THEN t + Hour ELSE t
TimesAsText(ci) == [ci EXCEPT !.notBefore = Text(@), !.notAfter = Text(@)]
write_node_state(c) == [c EXCEPT !.ci = TimesAsText(@)]

Info(rid, terms) ==
  [identity |-> NextKey, rid |-> rid, rights |-> terms.rights, deleg |-> terms.rights,
   notBefore |-> terms.notBefore, notAfter |-> terms.notAfter]

\* Mutant: the certificate is hashed before the issuer's key is known.
EarlyHash_NewCertificate(ttp, ci) ==
  LET rho == create_key(ttp, ci)
  IN  [issuer |-> ttp, rho |-> rho, ci |-> ci, sigma |-> NextKey,
       sig |-> libpla_sign(NextKey, cert_to_bin(Root, rho, ci))]
NewCertificate(ttp, ci) ==
  LET rho == create_key(ttp, ci)
  IN  [issuer |-> ttp, rho |-> rho, ci |-> ci, sigma |-> NextKey,
       sig |-> libpla_sign(NextKey, cert_to_bin(ttp, rho, ci))]

(* The base header of a list item, its sequence number 0. *)
Item(c) ==
  [rid |-> c.ci.rid, sigma |-> c.sigma,
   header |-> [type |-> IF c.ci.rid = NoRid THEN "PLA" ELSE "PLA_RID",
               rho |-> c.rho, ttp |-> c.issuer, identity |-> c.ci.identity,
               notBefore |-> c.ci.notBefore, notAfter |-> c.ci.notAfter,
               rights |-> c.ci.rights, deleg |-> c.ci.deleg, ts |-> 0, seq |-> 0]]

cert_verify(c) ==
  /\ c.ci.notBefore <= now /\ now <= c.ci.notAfter
  /\ libpla_verify(c.sig, c.rho, c.issuer, cert_to_bin(c.issuer, c.rho, c.ci),
                   calculate_id_hash(c.ci))

-----------------------------------------------------------------------------
(* Sequence numbers: which of the last WindowSize numbers of a key have    *)
(* passed, in a circular buffer that starts at index.                      *)

Entry0 == [low |-> 0, index |-> 0, window |-> [i \in 0 .. WindowSize - 1 |-> 0]]
Connection(n, k) == IF k \in DOMAIN conn[n] THEN conn[n][k] ELSE Entry0

Slot(e, seq) == (e.index + (seq - e.low)) % WindowSize
InWindow(e, seq) == e.low <= seq /\ seq <= e.low + WindowSize - 1
SeqOK(e, seq) == seq >= e.low /\ (InWindow(e, seq) => e.window[Slot(e, seq)] = 0)

\* Mutant: the entries that leave the window are not zeroed.
Stale_Advanced(e, advance) ==
  [e EXCEPT !.low = @ + advance, !.index = (@ + advance) % WindowSize]
\* Mutant: the index runs past the end of the buffer.
Overrun_Advanced(e, advance) ==
  [e EXCEPT !.low = @ + advance, !.index = @ + advance,
            !.window = [i \in 0 .. WindowSize - 1 |-> 0]]
Advanced(e, advance) ==
  [low |-> e.low + advance, index |-> (e.index + advance) % WindowSize,
   window |-> [i \in 0 .. WindowSize - 1 |->
                 IF (i - e.index) % WindowSize < advance THEN 0 ELSE e.window[i]]]

Marked(e, seq) == [e EXCEPT !.window[Slot(e, seq)] = 1]
check_sequence_number(e, seq) ==
  IF seq < e.low THEN e
  ELSE IF InWindow(e, seq) THEN Marked(e, seq)
  ELSE Marked(Advanced(e, seq - (e.low + WindowSize - 1)), seq)

-----------------------------------------------------------------------------
(* Signing and verifying.  A packet is what the signature covers: the      *)
(* header, and what precedes it (psirp), the signature left out.           *)

\* Mutant: the time is set after hashing.
LateTime_Signed(item, psirp, to, ahead) ==
  LET h == [item.header EXCEPT !.seq = @ + ahead]
  IN  [to |-> to, psirp |-> psirp, header |-> [h EXCEPT !.ts = now],
       sig |-> libpla_sign(item.sigma, <<psirp, h>>)]
Signed(item, psirp, to, ahead) ==
  LET h == [item.header EXCEPT !.seq = @ + ahead, !.ts = now]
  IN  [to |-> to, psirp |-> psirp, header |-> h,
       sig |-> libpla_sign(item.sigma, <<psirp, h>>)]
Unsigned(to) == [to |-> to, header |-> None]

Distance(a, b) == IF a <= b THEN b - a ELSE a - b
TimestampOK(h) == Distance(h.ts, now) <= TimestampDiff
NumberOK(n, h) == SeqOK(Connection(n, h.rho.key), h.seq)
RightsOK(h) == {"control", "traffic"} \subseteq h.rights
SignatureOK(p, rid) ==
  libpla_verify(p.sig, p.header.rho, p.header.ttp, <<p.psirp, p.header>>,
                HeaderIdHash(rid, p.header))

(* The differences of unsigned numbers with which the two check the        *)
(* validity times are never negative: that check always succeeds.          *)
lightweight_verify(n, p) ==
  TimestampOK(p.header) /\ NumberOK(n, p.header) /\ RightsOK(p.header)
full_verify(n, p) == lightweight_verify(n, p) /\ SignatureOK(p, NoRid)

(* The bits of libpla_pla_receive, when no check makes it leave early. *)
pla_receive(n, p, rid) ==
  {b \in {"timestamp", "number", "validity", "low", "high", "signature"} :
     CASE b = "timestamp" -> TimestampOK(p.header)
       [] b = "number" -> NumberOK(n, p.header)
       [] b = "validity" -> p.header.notBefore <= now /\ now <= p.header.notAfter
       [] b = "low" -> "control" \in p.header.rights
       [] b = "high" -> "traffic" \in p.header.rights
       [] b = "signature" -> SignatureOK(p, rid)}

(* The number is marked as soon as it passes, whatever the later checks say. *)
Checked(n, h) ==
  /\ conn' = [conn EXCEPT ![n] =
                [k \in DOMAIN @ \cup {h.rho.key} |->
                   IF k = h.rho.key THEN check_sequence_number(Connection(n, k), h.seq)
                   ELSE @[k]]]
  /\ seen' = [seen EXCEPT ![n] = IF NumberOK(n, h) THEN @ \cup {<<h.rho.key, h.seq>>} ELSE @]

-----------------------------------------------------------------------------
(* placonf and the certificate functions of the signing process. *)

Init ==
  /\ bound \in Bounds
  /\ now = 0
  /\ file = [f \in {"ttp", "user"} |-> None]
  /\ certs = <<>> /\ default = "none"
  /\ conn = [n \in Node \cup App |-> <<>>]
  /\ net = {}
  /\ signed = 0
  /\ issued = <<>>
  /\ seen = [n \in Node \cup App |-> {}]

Save(f, c) == file' = [file EXCEPT ![f] = write_node_state(c)]
Draws(ci) == NextKey <= bound.keys /\ issued' = Append(issued, ci)

ttp_create(terms) ==
  LET ci == Info(NoRid, [terms EXCEPT !.rights = Rights])
  IN  /\ Draws(ci)
      /\ Save("ttp", NewCertificate(Root, ci))
      /\ UNCHANGED <<bound, now, certs, default, conn, net, signed, seen>>

(* Without -C the certificate that signs is that of the node. *)
id_sign(signer, terms, rid) ==
  LET ci == Info(rid, terms)
  IN  /\ file[signer] # None
      /\ Draws(ci)
      /\ Save("user", NewCertificate(file[signer].sigma, ci))
      /\ UNCHANGED <<bound, now, certs, default, conn, net, signed, seen>>

libpla_create_certificate(terms, rid, saved) ==
  LET ci == Info(rid, terms)
      c == NewCertificate(file["ttp"].sigma, ci)
  IN  /\ default # "none" /\ Len(certs) < bound.certs
      /\ file["ttp"] # None
      /\ Draws(ci)
      /\ certs' = <<Item(c)>> \o certs
      /\ IF saved THEN Save("user", c) ELSE UNCHANGED file
      /\ UNCHANGED <<bound, now, default, conn, net, signed, seen>>

libpla_init ==
  /\ default = "none" /\ file["user"] # None
  /\ certs' = <<Item(file["user"])>>
  /\ default' = "listed"
  /\ UNCHANGED <<bound, now, file, conn, net, signed, issued, seen>>

libpla_read_certificate ==
  /\ default # "none" /\ file["user"] # None /\ Len(certs) < bound.certs
  /\ certs' = <<Item(file["user"])>> \o certs
  /\ UNCHANGED <<bound, now, file, default, conn, net, signed, issued, seen>>

(* A rid is compared where both have one, else only the implicit           *)
(* certificate; NoRid and None stand for a null pointer.                   *)
Matches(item, rid, rho) ==
  IF rid # NoRid /\ item.rid # NoRid
  THEN rid = item.rid /\ (rho = None \/ rho = item.header.rho)
  ELSE rho # None /\ rho = item.header.rho
IsFirst(i, rid, rho) ==
  /\ Matches(certs[i], rid, rho)
  /\ \A j \in 1 .. i - 1 : ~Matches(certs[j], rid, rho)

libpla_delete_certificate(rid, rho) ==
  /\ \E i \in 1 .. Len(certs) :
       /\ IsFirst(i, rid, rho)
       /\ certs' = SubSeq(certs, 1, i - 1) \o SubSeq(certs, i + 1, Len(certs))
       /\ default' = IF i = Len(certs) /\ default = "listed" THEN "freed" ELSE default
  /\ UNCHANGED <<bound, now, file, conn, net, signed, issued, seen>>

libpla_cleanup ==
  /\ default # "none"
  /\ certs' = <<>> /\ default' = "none"
  /\ UNCHANGED <<bound, now, file, conn, net, signed, issued, seen>>

-----------------------------------------------------------------------------
(* Sending. *)

Numbered(i, count) ==
  /\ signed + count <= bound.signed
  /\ signed' = signed + count
  /\ certs' = [certs EXCEPT ![i].header.seq = @ + count]
Send(ps) == Cardinality(net \cup ps) <= bound.net /\ net' = net \cup ps

(* PLA::push, port 0: the packet is signed again for every link its FID    *)
(* matches, always with the default certificate.                           *)
PushSigned(links) ==
  /\ default = "listed"
  /\ Numbered(Len(certs), Cardinality(links))
  /\ Send({Signed(certs[Len(certs)], NoRid, FirstHops[l],
                  Cardinality({j \in links : j <= l})) : l \in links})
  /\ UNCHANGED <<bound, now, file, default, conn, issued, seen>>

(* With SIGN_PLA false the packet goes as it is. *)
PushUnsigned(link) ==
  /\ Send({Unsigned(FirstHops[link])})
  /\ UNCHANGED <<bound, now, file, certs, default, conn, signed, issued, seen>>

(* libpla_pla_header_add for data published under a rendezvous identifier. *)
HeaderAdd(i, rid, a) ==
  /\ Numbered(i, 1)
  /\ Send({Signed(certs[i], rid, a, 1)})
  /\ UNCHANGED <<bound, now, file, default, conn, issued, seen>>

-----------------------------------------------------------------------------
(* Receiving.  The network may keep a copy of what it delivers. *)

Arrives(p, forwarded) ==
  \E left \in {net, net \ {p}} :
    /\ Cardinality(left \cup forwarded) <= bound.net
    /\ net' = left \cup forwarded
(* Out[n] stands for the entries of n's forwarding table that FIDs match. *)
Copies(p) == {[p EXCEPT !.to = m] : m \in Out[p.to]}

(* PLA::push, the other ports: a packet that fails is dropped, any other   *)
(* is forwarded with its header and passed on locally without it.          *)
Push(p, mode) ==
  /\ p.to \in Node
  /\ mode \in Modes[p.to]
  /\ IF p.header = None \/ mode = "skip"
     THEN Arrives(p, Copies(p)) /\ UNCHANGED <<conn, seen>>
     ELSE /\ LET ok == IF mode = "full" THEN full_verify(p.to, p)
                       ELSE lightweight_verify(p.to, p)
             IN  Arrives(p, IF ok THEN Copies(p) ELSE {})
          /\ IF TimestampOK(p.header) THEN Checked(p.to, p.header)
             ELSE UNCHANGED <<conn, seen>>
  /\ UNCHANGED <<bound, now, file, certs, default, signed, issued>>

(* libpla_pla_receive takes the rid from its caller, which gives it if the *)
(* header says that the certificate is tied to one.                        *)
GivenRid(p) == IF p.header.type = "PLA_RID" THEN p.psirp ELSE NoRid
PlaReceive(p, exitEarly) ==
  /\ p.to \in App
  /\ Arrives(p, {})
  /\ IF exitEarly /\ "timestamp" \notin pla_receive(p.to, p, GivenRid(p))
     THEN UNCHANGED <<conn, seen>>
     ELSE Checked(p.to, p.header)
  /\ UNCHANGED <<bound, now, file, certs, default, signed, issued>>

(* libpla_connections_flush, and a new process. *)
Restart(n) ==
  /\ conn[n] # <<>>
  /\ conn' = [conn EXCEPT ![n] = <<>>]
  /\ seen' = [seen EXCEPT ![n] = {}]
  /\ UNCHANGED <<bound, now, file, certs, default, net, signed, issued>>

Lose(p) == net' = net \ {p} /\ UNCHANGED <<bound, now, file, certs, default, conn, signed, issued, seen>>
Tick ==
  /\ now < bound.time
  /\ now' = now + 1
  /\ UNCHANGED <<bound, file, certs, default, conn, net, signed, issued, seen>>

Configure ==
  \/ \E terms \in bound.terms : ttp_create(terms)
  \/ \E signer \in DOMAIN file, terms \in bound.terms, rid \in bound.rids \cup {NoRid} :
       id_sign(signer, terms, rid)
Manage ==
  \/ libpla_init \/ libpla_read_certificate \/ libpla_cleanup
  \/ \E terms \in bound.terms, rid \in bound.rids \cup {NoRid}, saved \in BOOLEAN :
       libpla_create_certificate(terms, rid, saved)
  \/ \E rid \in bound.rids \cup {NoRid},
        rho \in {None} \cup {certs[i].header.rho : i \in 1 .. Len(certs)} :
       libpla_delete_certificate(rid, rho)
Publish ==
  \/ \E links \in (SUBSET DOMAIN FirstHops) \ {{}} : PushSigned(links)
  \/ \E l \in DOMAIN FirstHops : PushUnsigned(l)
  \/ \E i \in 1 .. Len(certs), rid \in Rid, a \in App : HeaderAdd(i, rid, a)
Deliver ==
  \E p \in net :
    \/ \E mode \in {"full", "light", "skip"} : Push(p, mode)
    \/ \E exitEarly \in BOOLEAN : PlaReceive(p, exitEarly)
    \/ Lose(p)

Next ==
  \/ Configure \/ Manage \/ Publish \/ Deliver \/ Tick
  \/ \E n \in Node \cup App : Restart(n)

Spec == Init /\ [][Next]_vars

-----------------------------------------------------------------------------
(* connection_list holds windows of known keys, and there is a default     *)
(* certificate exactly while libpla is initialized, until it is deleted.   *)
TypeOK ==
  /\ now \in 0 .. bound.time
  /\ default \in {"none", "listed", "freed"}
  /\ default = "none" => certs = <<>>
  /\ default = "listed" => certs # <<>>
  /\ \A n \in Node \cup App :
       /\ DOMAIN conn[n] \subseteq Key
       /\ \A k \in DOMAIN conn[n] :
            conn[n][k] \in [low : 0 .. bound.signed, index : 0 .. WindowSize - 1,
                           window : [0 .. WindowSize - 1 -> {0, 1}]]
  /\ Cardinality(net) <= bound.net

(* libpla_check_sequence_number: "that packet is not a duplicate, and has  *)
(* not been execessively delayed".  Whatever numbers passed before, in     *)
(* whatever order and however far apart, the circular window lets a number *)
(* pass exactly if it has not passed yet and none that is WindowSize or    *)
(* more ahead of it has.                                                   *)
WindowIsExact ==
  \A n \in Node \cup App, k \in Key, s \in 1 .. bound.signed + 1 :
    SeqOK(Connection(n, k), s)
      <=> /\ <<k, s>> \notin seen[n]
          /\ \A m \in seen[n] : m[1] = k => m[2] - s < WindowSize

(* What is signed is accepted: while its timestamp is good, a packet of a  *)
(* certificate with both rights and no rid passes full verification at     *)
(* every node it comes to, however it got there, unless its number was     *)
(* seen or left behind, also if the certificate was created, written, read *)
(* again or issued by another node in between.                             *)
SignedPacketsVerify ==
  \A p \in {q \in net : q.header # None} :
    LET k == p.header.rho.key
    IN  /\ now - p.header.ts <= TimestampDiff
        /\ {"control", "traffic"} \subseteq issued[k].rights
        /\ issued[k].rid = NoRid
        /\ <<k, p.header.seq>> \notin seen[p.to]
        /\ \A t \in p.header.seq .. bound.signed :
             <<k, t>> \in seen[p.to] => t - p.header.seq < WindowSize
        => full_verify(p.to, p)

(* "If rid != NULL, then the certificate will be tied to the specific rid, *)
(* it will NOT work with any other rid!" (README of libpla): the signature *)
(* of data published under a rid verifies if the certificate is tied to no *)
(* rid or to this one, and only then.                                      *)
RidIsBound ==
  \A p \in {q \in net : q.to \in App} :
    "signature" \in pla_receive(p.to, p, GivenRid(p))
      <=> issued[p.header.rho.key].rid \in {NoRid, p.psirp}

(* Both together: a packet is accepted if it should be, and under the rid  *)
(* its certificate is for.                                                 *)
PacketsVerify == TypeOK /\ SignedPacketsVerify /\ RidIsBound

(* "Verify the user certificate: [...] This should produce: Successful     *)
(* verify" (README of libpla): a certificate in its file verifies while it *)
(* is valid.                                                               *)
CertificatesVerify ==
  \A f \in DOMAIN file :
    file[f] # None =>
      LET asked == issued[file[f].sigma]
      IN  asked.notBefore < now /\ now < asked.notAfter => cert_verify(file[f])
===============================================================================
