---------------------------- MODULE MCTlsRevocation ----------------------------
(* Instances of TlsRevocation: a leaf under an issuer whose own issuer is    *)
(* cross-signed by two roots.                                                *)
EXTENDS TlsRevocation

CONSTANTS leaf, a, b, x, r1, r2, u1, u2, o1, o2, self, p1

MCCerts == {leaf, a, b, x, r1, r2}
MCSubjectOf == [c \in MCCerts |-> IF c = x THEN b ELSE c]
MCIssuerOf == (leaf :> a) @@ (a :> b) @@ (b :> r1) @@ (x :> r2) @@ (r1 :> r1) @@ (r2 :> r2)

MCVendors == <<"apple", "google", "microsoft">>

(* The right certificate, one that was not asked for, a bundle with the one  *)
(* that is expected in it, and nothing of use.                               *)
MCResponses == {<<>>, <<a>>, <<b>>, <<x>>, <<r1>>, <<r2, a>>, <<a, x, b>>}

CRL(signed, next_update, status, size) ==
  [signed |-> signed, next_update |-> next_update, status |-> status, size |-> size]
MCCRLs == {CRL(TRUE, 0, "good", 1), CRL(TRUE, 2, "good", 2), CRL(TRUE, 2, "revoked", 3), CRL(FALSE, 2, "good", 1)}
Reply(signed, next_update, status) == [signed |-> signed, next_update |-> next_update, status |-> status]
MCReplies == {Reply(FALSE, 2, "good"), Reply(TRUE, 0, "revoked"), Reply(TRUE, 2, "good"), Reply(TRUE, 2, "revoked"), Reply(TRUE, 2, "unknown")}

NoVendors == [v \in {} |-> {}]
File(crl, mtime) == [crl |-> crl, mtime |-> mtime]

ChainWorlds ==
  [peer : {<<>>, <<a>>, <<b>>, <<a, b>>, <<b, a>>, <<a, x>>}, store : {{r1}, {r1, r2}},
   vendors : {"apple" :> {r1} @@ "google" :> {r2}}, valid : {MCCerts, MCCerts \ {b}}, weak : {{a}},
   with_aia : {MCCerts, {leaf}}, check_cross_sign : BOOLEAN,
   crls : {<<>>}, ocsps : {<<>>}, cached : {{NoFiles}}, served : {{}}, others : {{}}]

(* With the issuer of the chain, with one that is fetched, without one.      *)
RevocationWorlds(stored, aia, crls, ocsps) ==
  [peer : {<<a, b>>}, store : {stored}, vendors : {NoVendors}, valid : {MCCerts}, weak : {{}},
   with_aia : {aia}, check_cross_sign : {FALSE}, crls : crls, ocsps : ocsps,
   cached : {{NoFiles, u1 :> File(CRL(TRUE, 2, "good", 2), 0), u1 :> File(Corrupt, 0)}},
   served : {MCCRLs}, others : {{}}]

(* A neighbour puts as this process does.                                    *)
SharedWorlds ==
  {[w EXCEPT !.cached = {NoFiles}, !.served = {CRL(TRUE, 2, "good", 2), CRL(TRUE, 2, "revoked", 3)}, !.others = {p1}] :
     w \in RevocationWorlds({r1}, {}, {<<u1>>}, {<<>>})}

MCWorlds ==
  ChainWorlds
  \cup RevocationWorlds({r1}, {}, {<<u1>>, <<u1, u2>>}, {<<>>, <<o1>>})
  \cup RevocationWorlds({}, {leaf}, {<<>>, <<u1>>}, {<<o1, o2>>})
  \cup RevocationWorlds({}, {}, {<<u1>>}, {<<o1>>})
  \cup SharedWorlds

===============================================================================
