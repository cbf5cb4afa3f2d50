----------------------------- MODULE AdminCerts -----------------------------
(***************************************************************************)
(* Certificates of administrators: how they are minted under the admin CA  *)
(* of CAKeys, registered, presented, admitted and revoked, and the pair of *)
(* files on a workstation that the client presents.                        *)
(*                                                                         *)
(* The core's handlers are one step each; a request is admitted by the     *)
(* middleware and handled later (gate).  The client keeps its transport    *)
(* from request to request (staged) and reads the certificate's file at    *)
(* several points while it prepares a request (phase), with a renewal      *)
(* writing the pair in between.  One relay-client credential of the core   *)
(* stands for the registry of those.                                       *)
(***************************************************************************)
EXTENDS CAKeys

CONSTANTS Users,   \* people who may be administrators
          Slot,    \* the machine identity in known_admin_ids
          Serials  \* serials of certificates, minted here or not

VARIABLES
    anchor,     \* admin_trusted_cas of the running core
    admins,     \* members of the admin role
    touch,      \* people who hold an unused elevation token
    cert,       \* a certificate that was minted
    expired,    \* certificates past their window
    registered, \* admin_credentials
    revoked,    \* admin_cert_revocations
    logged,     \* committed audit events
    gate,       \* certificates of requests admitted and not yet handled
    disk,       \* the pair on the workstation, by the certificate it belongs to
    pending,    \* the pair a minting command has still to write, and its next file
    staged,     \* the certificate of the client's transport
    print,      \* the certificate whose fingerprint was recorded for it
    phase,      \* how far the preparation of a request is
    sending,    \* the certificate a request under way presents
    since,      \* certificates on disk since the preparation began
    relay       \* the row of the relay-client credential

registry == <<registered, revoked, logged, relay>>
people   == <<admins, touch>>
client   == <<staged, print, phase, sending, since>>
station  == <<disk, pending, client>>
certvars == <<anchor, people, cert, expired, registry, gate, station>>
vars     == <<cavars, certvars>>

\* The credential plane: none where the certificate has no marker.
Planes == {"human", "machine", "none"}
Cert   == [who : Users \cup {Slot}, plane : Planes, gen : Gens]

Event  == {"issued", "registered", "revoked"} \X Serials
Minted == {s \in Serials : cert[s] # None}
Torn   == "torn"  \* a certificate file that was cut while it was written

\* A serial nobody signed for is told from one that was, a file that is not
\* there or torn from a certificate.
ASSUME NoneIsNoCert == None \notin Cert
ASSUME NoSerialIsOnDisk == None \notin Serials /\ Torn \notin Serials

Init == /\ InitCA
        /\ anchor = None
        /\ admins = Users
        /\ touch = {}
        /\ cert = [s \in Serials |-> None]
        /\ expired = {}
        /\ registered = {} /\ revoked = {} /\ logged = {}
        /\ gate = {}
        /\ disk = [key |-> None, crt |-> None]
        /\ pending = None
        /\ staged = None /\ print = None
        /\ phase = "idle" /\ sending = None /\ since = {}
        /\ relay = "unknown"

-----------------------------------------------------------------------------
(* The core starts. *)

\* ingest_admin_credential registers the pair the core is pointed at, if any.
Ingested == {registered, registered \cup {s \in Minted : cert[s].plane = "machine"}}

\* ingest_relay_credential registers the relay-client certificate, if any, and
\* leaves a row that is there alone.
RelayIngested == {relay, IF relay = "unknown" THEN "registered" ELSE relay}

\* lifespan: the admin CA must be there, its certificate becomes the anchor.
Start == /\ Counted
         /\ HasCa
         /\ anchor' = crt
         /\ gate' = {}
         /\ registered' \in Ingested
         /\ relay' \in RelayIngested
         /\ UNCHANGED <<cafiles, custody, people, cert, expired, revoked, logged, station>>

-----------------------------------------------------------------------------
(* Minting. *)

\* A random serial, which nobody has registered either.
Signed(s, u, plane) == /\ cert[s] = None /\ s \notin registered
                       /\ cert' = [cert EXCEPT ![s] = [who |-> u, plane |-> plane, gen |-> key.gen]]

\* A touch of the person's key, in the elevation ceremony.
Elevate(u) == /\ Counted
              /\ u \notin touch
              /\ touch' = touch \cup {u}
              /\ UNCHANGED <<cafiles, custody, anchor, admins, cert, expired, registry, gate, station>>

\* Mutation: the registry is written in a transaction of its own, afterwards.
AccountsFor(s) == logged' = logged \cup {<<"issued", s>>} /\ UNCHANGED registered

\* register_admin_credential and audit_lifecycle, in the same transaction.
Records(s) == /\ registered' = registered \cup {s}
              /\ logged' = logged \cup {<<"issued", s>>}

\* _require_human_session: a login session, and the admin role now.
HumanSession(u) == u \in admins

\* _consume_elevation_token
SpendsTouch(u) == u \in touch /\ touch' = touch \ {u}

\* cmd_admin_cert_renew makes the key pair, asks over a transport without a
\* certificate and writes nothing before the answer; it may never arrive.
Renews(s, answered) ==
    /\ pending = None
    /\ pending' = IF answered THEN [serial |-> s, file |-> "key"] ELSE None

\* admin_issue_cert, one transaction: a CA that does not sign leaves the touch
\* unspent.
Issue(u, s, answered) ==
    /\ anchor # None
    /\ HumanSession(u)
    /\ SpendsTouch(u)
    /\ Loads
    /\ Signed(s, u, "human")
    /\ Records(s)
    /\ Renews(s, answered)
    /\ UNCHANGED <<cavars, anchor, admins, expired, revoked, relay, gate, disk, client>>

\* AdminCAManager.sign_admin_cert, which the installer calls: the core's own
\* pair, kept on the core.
SignAdminCert(s) == /\ Counted
                    /\ Loads
                    /\ Signed(s, Slot, "machine")
                    /\ UNCHANGED <<cafiles, custody, anchor, people, expired, registry, gate, station>>

\* cmd_admin_generate_admin_cert opens the CA itself; what it signs has no
\* plane marker.
GenerateAdminCert(s) ==
    /\ Counted
    /\ HasCa
    /\ pending = None
    /\ Signed(s, Slot, "none")
    /\ pending' = [serial |-> s, file |-> "key"]
    /\ UNCHANGED <<cafiles, custody, anchor, people, expired, registry, gate, disk, client>>

\* A request that is being prepared sees what is on disk from now on.
Seen == since' = IF phase = "idle" THEN since ELSE since \cup {disk'.crt}

\* The key replaces the old one, then the certificate does.
WritesPair == /\ pending # None
              /\ disk' = [disk EXCEPT ![pending.file] = pending.serial]
              /\ pending' = IF pending.file = "key" THEN [pending EXCEPT !.file = "crt"] ELSE None
              /\ Seen
              /\ UNCHANGED <<cavars, anchor, people, cert, expired, registry, gate,
                             staged, print, phase, sending>>

\* The command dies, or a write fails.  cmd_admin_generate_admin_cert writes
\* the certificate in place.
MintDies ==
    /\ pending # None
    /\ pending' = None
    /\ \/ UNCHANGED disk
       \/ /\ pending.file = "crt" /\ cert[pending.serial].plane = "none"
          /\ disk' = [disk EXCEPT !.crt = Torn]
    /\ Seen
    /\ UNCHANGED <<cavars, anchor, people, cert, expired, registry, gate, staged, print, phase, sending>>

-----------------------------------------------------------------------------
(* Presenting. *)

\* What a step of the client's own leaves alone.
Elsewhere == UNCHANGED <<cavars, anchor, people, cert, expired, registry, gate, disk, pending>>

\* The transport is handed out, and the request presents its certificate.
Presents(c) == phase' = "idle" /\ sending' = c /\ UNCHANGED since

\* The request ends before anything is sent.
Refused == phase' = "idle" /\ since' = {} /\ UNCHANGED sending

\* APIClient.__init__ and _request: without both files there is no certificate
\* to present.
Begin == /\ phase = "idle" /\ sending = None
         /\ disk.key # None /\ disk.crt # None
         /\ phase' = "begun"
         /\ since' = {disk.crt}
         /\ Elsewhere /\ UNCHANGED <<staged, print, sending>>

\* APIClient._http with a transport: it is handed out if the file still has the
\* recorded fingerprint, and dropped otherwise.
Confirms == /\ phase = "begun" /\ staged # None
            /\ IF disk.crt = print
               THEN Presents(staged) /\ UNCHANGED <<staged, print>>
               ELSE staged' = None /\ print' = None /\ UNCHANGED <<phase, sending, since>>
            /\ Elsewhere

\* The build branch.  admin_cert_expiry_refusal: a file that cannot be parsed
\* has not expired.
ChecksExpiry == /\ phase = "begun" /\ staged = None
                /\ IF disk.crt \in expired
                   THEN Refused
                   ELSE phase' = "checked" /\ UNCHANGED <<sending, since>>
                /\ Elsewhere /\ UNCHANGED <<staged, print>>

\* _admin_cert_fingerprint, before the pair is loaded
Prints == /\ phase = "checked"
          /\ print' = disk.crt
          /\ phase' = "printed"
          /\ Elsewhere /\ UNCHANGED <<staged, sending, since>>

\* _admin_cert_fingerprint refuses an empty file.
FindsNothing == /\ phase = "checked" \/ (phase = "begun" /\ staged # None)
                /\ disk.crt = Torn
                /\ Refused
                /\ Elsewhere /\ UNCHANGED <<staged, print>>

\* Mutation: the fingerprint is taken after the pair was loaded.
PrintsLast == /\ phase = "printed"
              /\ IF print \in Serials
                 THEN staged' = print /\ Presents(print)
                 ELSE Refused /\ UNCHANGED staged
              /\ print' = disk.crt
              /\ Elsewhere

\* _build_ssl_context loads the pair, which must match, and the new transport is
\* handed out as it is.
LoadsPair == /\ phase = "printed"
             /\ IF disk.crt \in Serials /\ disk.key = disk.crt
                THEN staged' = disk.crt /\ Presents(disk.crt)
                ELSE Refused /\ UNCHANGED staged
             /\ Elsewhere /\ UNCHANGED print

\* The answer is there: a refusal, a result, a timeout.  A request that is
\* repeated after a refresh of the session presents the same certificate.
Answered == /\ sending # None
            /\ sending' = None /\ since' = {}
            /\ Elsewhere /\ UNCHANGED <<staged, print, phase>>

\* The client process ends.
ClientEnds == /\ staged # None /\ phase = "idle" /\ sending = None
              /\ staged' = None /\ print' = None
              /\ Elsewhere /\ UNCHANGED <<phase, sending, since>>

\* _verify_forwarded_cert
Chains(s) == s \notin expired /\ cert[s].gen = anchor

\* parse_plane_marker and the allowlist of the machine plane
PlaneAdmits(s) == \/ cert[s].plane = "human"
                  \/ cert[s].plane = "machine" /\ cert[s].who = Slot

\* _register_observed_admin_credential, which may fail
Observes(s, observed) == registered' = IF observed THEN registered \cup {s} ELSE registered

\* The revocation read of _validate_admin_mtls; it fails closed.
Unrevoked(s) == s \notin revoked

\* _validate_admin_mtls
Admit(s, observed) ==
    /\ anchor # None
    /\ s \in Minted
    /\ s \notin gate
    /\ Chains(s)
    /\ PlaneAdmits(s)
    /\ Unrevoked(s)
    /\ gate' = gate \cup {s}
    /\ Observes(s, observed)
    /\ UNCHANGED <<anchor, people, cert, expired, revoked, logged, station, relay>>

\* The workstation's request arrives; the core's own pair is used there.
Request(s, observed) == /\ sending = s
                        /\ Admit(s, observed)
                        /\ UNCHANGED cavars

RequestOnCore(s, observed) == /\ s \in Minted /\ cert[s].plane = "machine"
                              /\ Counted
                              /\ Admit(s, observed)
                              /\ UNCHANGED <<cafiles, custody>>

-----------------------------------------------------------------------------
(* Handling. *)

\* require_admin asks the role table about a person at every use.
Authorized(s) == s \in gate /\ (cert[s].plane = "machine" \/ cert[s].who \in admins)

\* A handler ends the request of s.
Handles(s) == Authorized(s) /\ gate' = gate \ {s}

\* require_admin refuses, or the handler changes nothing.
Dropped(s) == /\ s \in gate
              /\ gate' = gate \ {s}
              /\ UNCHANGED <<cavars, anchor, people, cert, expired, registry, station>>

\* admin_register_admin_cert: the facts are read off the certificate, whoever
\* signed it.
RegisterCert(s, t) == /\ Handles(s)
                      /\ registered' = registered \cup {t}
                      /\ logged' = logged \cup {<<"registered", t>>}
                      /\ UNCHANGED <<cavars, anchor, people, cert, expired, revoked, relay, station>>

\* Mutation: any serial may be revoked.
RevokeUnknown(s, t) ==
    /\ Handles(s)
    /\ revoked' = revoked \cup {t}
    /\ logged' = logged \cup {<<"revoked", t>>}
    /\ UNCHANGED <<cavars, anchor, people, cert, expired, registered, relay, station>>

\* admin_revoke_admin_cert refuses a serial nobody vouches for; a repeated
\* revocation is only recorded.
RevokeCert(s, t) == /\ Handles(s)
                    /\ t \in registered \cup revoked
                    /\ revoked' = revoked \cup {t}
                    /\ logged' = logged \cup {<<"revoked", t>>}
                    /\ UNCHANGED <<cavars, anchor, people, cert, expired, registered, relay, station>>

\* admin_register_core_relay_cert
RegisterRelay(s) == /\ Handles(s)
                    /\ relay = "unknown"
                    /\ relay' = "registered"
                    /\ UNCHANGED <<cavars, anchor, people, cert, expired, registered, revoked, logged, station>>

\* admin_revoke_core_relay_cert
RevokeRelay(s) == /\ Handles(s)
                  /\ relay = "registered"
                  /\ relay' = "revoked"
                  /\ UNCHANGED <<cavars, anchor, people, cert, expired, registered, revoked, logged, station>>

-----------------------------------------------------------------------------
\* The certificate's window passes.
Expire(s) == /\ Counted
             /\ s \in Minted \ expired
             /\ expired' = expired \cup {s}
             /\ UNCHANGED <<cafiles, custody, anchor, people, cert, registry, gate, station>>

\* A person joins or leaves the admin role.
Roles(u) == /\ Counted
            /\ admins' = IF u \in admins THEN admins \ {u} ELSE admins \cup {u}
            /\ UNCHANGED <<cafiles, custody, anchor, touch, cert, expired, registry, gate, station>>

Mint == \/ \E u \in Users : Elevate(u) \/ \E s \in Serials, a \in BOOLEAN : Issue(u, s, a)
        \/ \E s \in Serials : SignAdminCert(s) \/ GenerateAdminCert(s)
        \/ WritesPair \/ MintDies

Client == \/ Begin \/ Confirms \/ ChecksExpiry \/ Prints \/ FindsNothing \/ LoadsPair
          \/ Answered \/ ClientEnds

Present == \/ Client
           \/ \E s \in Serials, o \in BOOLEAN : Request(s, o) \/ RequestOnCore(s, o)

Handle == \E s \in Serials : \/ Dropped(s) \/ RegisterRelay(s) \/ RevokeRelay(s)
                             \/ \E t \in Serials : RegisterCert(s, t) \/ RevokeCert(s, t)

Next == \/ Start \/ Mint \/ Present \/ Handle
        \/ \E s \in Serials : Expire(s)
        \/ \E u \in Users : Roles(u)
        \/ NextCA /\ UNCHANGED certvars

Spec == Init /\ [][Next]_vars

-----------------------------------------------------------------------------
(* Properties. *)

\* Types of every file, row and transport.  The revoke verb never names a
\* serial that was not registered first, whoever registered it: a request in
\* the gate, a boot or a renewal may register and revoke serials meanwhile.
TypeOK ==
    /\ TypeCA
    /\ anchor \in Gens \cup {None}
    /\ admins \subseteq Users /\ touch \subseteq Users
    /\ cert \in [Serials -> Cert \cup {None}]
    /\ expired \subseteq Minted /\ gate \subseteq Minted
    /\ registered \subseteq Serials /\ revoked \subseteq registered
    /\ logged \subseteq Event
    /\ disk \in [key : Serials \cup {None}, crt : Serials \cup {None, Torn}]
    /\ pending \in [serial : Serials, file : {"key", "crt"}] \cup {None}
    /\ staged \in Serials \cup {None} /\ print \in Serials \cup {None, Torn}
    /\ phase \in {"idle", "begun", "checked", "printed"}
    /\ sending \in Serials \cup {None} /\ since \subseteq Serials \cup {None, Torn}
    /\ relay \in {"unknown", "registered", "revoked"}

\* A certificate that a person was issued is on record as soon as it exists,
\* also when the answer was lost: it is registered, so that it can be revoked
\* before it is ever presented, and its issue and its revocation are audited.
Accountable == /\ \A s \in Minted : cert[s].plane = "human" =>
                     s \in registered /\ <<"issued", s>> \in logged
               /\ \A s \in revoked : <<"revoked", s>> \in logged

\* APIClient._http: a renewal that ended before a request began is never
\* missed, however it crossed the reads of earlier requests: what a request
\* presents was on disk while it was prepared.  A file found torn is excepted,
\* since one torn file looks like another.
PresentsRenewed ==
    [][sending' \notin {sending, None} => sending' \in since' \/ Torn \in since']_vars

=============================================================================
