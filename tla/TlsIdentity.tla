---------------------------- MODULE TlsIdentity ----------------------------
(***************************************************************************)
(* What beans_tls_client_new and beans_tls_add_identity of                 *)
(* src/runtime/net/beans_net_tls.c hold while they run: each is a list of  *)
(* steps that acquire objects of the platform, any of which may fail, and  *)
(* a failure path of its own that has to give everything back.             *)
(*                                                                         *)
(* A step is a record: `get' is acquired (all of it on success, any part   *)
(* of it on failure), `drop' is released once the step has succeeded and   *)
(* `undo' is what the code releases when it fails.                         *)
(*                                                                         *)
(* The connections and operations of the third backend are TlsListener's.  *)
(***************************************************************************)
EXTENDS TlsListener

VARIABLES at,    \* [fn, pc]: the function that runs and its next step
          acquired,  \* objects acquired and not released
          twice  \* history: something not held was released

identityVars == <<at, acquired, twice>>

Step(get, drop, undo) == [get |-> get, drop |-> drop, undo |-> undo]
Check(undo) == Step({}, {}, undo)

(***************************************************************************)
(* beans_tls_client_new.                                                   *)
(***************************************************************************)
\* The last check stands for SSL_set1_host, the ALPN list and the server's
\* context; SSL_free releases the BIOs it owns by then.
OsslNew ==
    << Step({"s"}, {}, {}), Step({"ctx"}, {}, {"s"}), Check({"ctx", "s"}),
       Step({"ssl"}, {}, {"ctx", "s"}),
       Step({"rbio", "wbio"}, {}, {"rbio", "wbio", "ssl", "ctx", "s"}),
       Check({"ssl", "rbio", "wbio", "ctx", "s"}) >>
\* protos is a temporary; a server keeps a reference to it as alpn_config.
StNew ==
    << Step({"s"}, {}, {}), Step({"ctx"}, {}, {"s"}), Check({"ctx", "s"}),
       Step({"protos"}, {}, {"protos", "ctx", "s"}),
       Step({"alpn_config"}, {"protos"}, {"protos", "alpn_config", "ctx", "s"}) >>
SchannelNew ==
    << Step({"s"}, {}, {}), Check({"s"}), Step({"wide"}, {}, {"wide", "s"}),
       Step({"credential"}, {"wide"}, {"wide", "s"}) >>

(***************************************************************************)
(* beans_tls_add_identity.                                                 *)
(***************************************************************************)
\* One exit releases everything it has; a named identity has an entry with a
\* context of its own.
OsslExit == {"password", "cert_bio", "certificate", "private_key", "extra_chain"}
OsslAdd ==
    << Step({"password"}, {}, {}),
       Step({"cert_bio", "key_bio"}, {}, OsslExit \cup {"key_bio"}),
       Step({"certificate", "private_key"}, {"key_bio"}, OsslExit \cup {"key_bio"}),
       Step({"entry", "entry_ctx"}, {}, OsslExit \cup {"entry", "entry_ctx"}),
       Check(OsslExit \cup {"entry", "entry_ctx"}),  \* install_context
       Step({}, OsslExit, OsslExit \cup {"entry", "entry_ctx"}) >> \* add_chain
OsslAddPkcs12 ==
    << Step({"password"}, {}, {}),
       Step({"p12_bio", "p12"}, {}, OsslExit \cup {"p12_bio", "p12"}),
       Step({"certificate", "private_key", "extra_chain"}, {"p12", "p12_bio"},
            OsslExit \cup {"p12_bio", "p12"}),
       Step({"entry", "entry_ctx"}, {}, OsslExit \cup {"entry", "entry_ctx"}),
       Check(OsslExit \cup {"entry", "entry_ctx"}),
       Step({}, OsslExit, OsslExit \cup {"entry", "entry_ctx"}) >>

\* beans_tls_temp_keychain: a file in /tmp and the keychain on it.
StPem ==
    << Step({"keychain"}, {}, {}),
       Step({"cert_data", "key_data"}, {}, {"cert_data", "key_data", "keychain"}),
       Step({"certs"}, {"cert_data"}, {"certs", "cert_data", "key_data", "keychain"}),
       Step({"pass"}, {}, {"certs", "key_data", "keychain"}),
       Step({"keys"}, {"pass", "key_data"}, {"pass", "key_data", "certs", "keys", "keychain"}),
       Step({"identity", "chain"}, {"identity", "certs", "keys"},
            {"identity", "chain", "certs", "keys", "keychain"}) >>
StPkcs12 ==
    << Step({"keychain"}, {}, {}),
       Step({"blob", "pass"}, {}, {"blob", "pass", "keychain"}),
       Step({"options"}, {}, {"options", "blob", "pass", "keychain"}),
       Step({"items"}, {"options", "blob", "pass"},
            {"options", "blob", "pass", "items", "keychain"}),
       Step({"chain"}, {"items"}, {"items", "keychain"}) >>
\* What add_identity does with the chain: the entry, its Network.framework
\* identity (a copied leaf and a certificate array on the way), the duplicate
\* name, and SSLSetCertificate, by when the entry is the session's: the caller,
\* new_server_handle, frees the session, and with it what the entry has.
StEntry ==
    << Step({"entry"}, {}, {"chain", "keychain"}),
       Step({"leaf"}, {}, {"chain", "keychain", "entry"}),
       Step({"certificates"}, {"leaf"}, {"leaf", "chain", "keychain", "entry"}),
       Step({"nw_identity"}, {"certificates"}, {"certificates", "chain", "keychain", "entry"}),
       Check({"nw_identity", "chain", "keychain", "entry"}),
       Check({"nw_identity", "chain", "keychain", "entry"}) >>

\* beans_tls_win_free_identity, after any failure of the loader.
SchannelExit == {"entry", "credential", "certificate", "store", "key", "key_provider"}
SchannelPem ==
    << Step({"entry"}, {}, {}), Check({"entry"}), Step({"store"}, {}, SchannelExit),
       Step({"der"}, {}, SchannelExit), Step({"wrapped"}, {"der"}, SchannelExit \cup {"der"}),
       Step({"key_provider"}, {}, SchannelExit \cup {"wrapped"}),
       Step({"wide_password"}, {}, SchannelExit \cup {"wrapped"}),
       Step({"key"}, {"wide_password", "wrapped"}, SchannelExit \cup {"wide_password", "wrapped"}),
       Check(SchannelExit),                          \* NCryptFinalizeKey
       Step({"parsed"}, {}, SchannelExit),
       Step({"certificate"}, {"parsed"}, SchannelExit \cup {"parsed"}),
       Step({"credential"}, {}, SchannelExit) >>

\* The import stores the private key in the key container of the user, where
\* only the handle `key' can delete it; `at' is the context the enumeration of
\* the store stands on, which the next turn frees and `break' does not.
SchannelPkcs12 ==
    << Step({"entry"}, {}, {}), Check({"entry"}),
       Step({"wide_password"}, {}, SchannelExit),
       Step({"store"}, {"wide_password"}, SchannelExit \cup {"wide_password"}),
       Step({"pfx_key", "at"}, {}, SchannelExit \cup {"at"}),
       Step({"info"}, {}, SchannelExit),
       Step({"key_provider", "key"}, {"info"}, SchannelExit \cup {"info", "at"}),
       Step({"certificate"}, {}, SchannelExit \cup {"pfx_key"}),
       Step({"credential"}, {}, SchannelExit \cup {"pfx_key"}) >>

Program(fn) ==
    CASE fn = "openssl new" -> OsslNew
      [] fn = "securetransport new" -> StNew
      [] fn = "schannel new" -> SchannelNew
      [] fn = "openssl pem" -> OsslAdd
      [] fn = "openssl pkcs12" -> OsslAddPkcs12
      [] fn = "securetransport pem" -> StPem \o StEntry
      [] fn = "securetransport pkcs12" -> StPkcs12 \o StEntry
      [] fn = "schannel pem" -> SchannelPem
      [] fn = "schannel pkcs12" -> SchannelPkcs12

\* What the session owns once the function has succeeded: beans_tls_free and
\* beans_tls_session_destroy release exactly this.
Owned(fn) ==
    CASE fn = "openssl new" -> {"s", "ssl", "rbio", "wbio", "ctx"}
      [] fn = "securetransport new" -> {"s", "ctx", "alpn_config"}
      [] fn = "schannel new" -> {"s", "credential"}
      [] fn \in {"openssl pem", "openssl pkcs12"} -> {"entry", "entry_ctx"}
      [] fn \in {"securetransport pem", "securetransport pkcs12"} ->
           {"entry", "chain", "nw_identity", "keychain"}
      [] fn = "schannel pem" -> SchannelExit
      [] fn = "schannel pkcs12" -> SchannelExit \cup {"pfx_key"}

Functions == {"openssl new", "securetransport new", "schannel new", "openssl pem",
              "openssl pkcs12", "securetransport pem", "securetransport pkcs12", "schannel pem",
              "schannel pkcs12"}

IdentityInit == at \in [fn : Functions, pc : {1}] /\ acquired = {} /\ twice = FALSE

Succeed ==
    /\ at.pc \in DOMAIN Program(at.fn)
    /\ \E st \in {Program(at.fn)[at.pc]} :
         /\ acquired' = (acquired \cup st.get) \ st.drop
         /\ twice' = (twice \/ st.get \cap acquired # {})
    /\ at' = [at EXCEPT !.pc = @ + 1]

\* The code frees what it finds non-null.  The platform may have handed out
\* part of what the step asked for.
Fail ==
    /\ at.pc \in DOMAIN Program(at.fn)
    /\ \E st \in {Program(at.fn)[at.pc]} : \E got \in SUBSET st.get :
         /\ st.get # {} => got # st.get
         /\ acquired' = (acquired \cup got) \ st.undo
    /\ at' = [at EXCEPT !.pc = 0]
    /\ UNCHANGED twice

\* The session is freed: what it owns is released, once.
Free ==
    /\ at.pc = Len(Program(at.fn)) + 1
    /\ acquired' = acquired \ Owned(at.fn)
    /\ twice' = (twice \/ ~(Owned(at.fn) \subseteq acquired))
    /\ at' = [at EXCEPT !.pc = Len(Program(at.fn)) + 2]

IdentityNext == Succeed \/ Fail \/ Free
IdentitySpec == IdentityInit /\ [][IdentityNext]_identityVars

(***************************************************************************)
(* Properties.                                                             *)
(***************************************************************************)
\* What the code does not give back: SChannel's PKCS#12 loader loses the
\* certificate context it stopped at, and when it fails before it has opened the
\* key, the key that the import has stored.
LostOnFailure(fn) == IF fn = "schannel pkcs12" THEN {"at", "pfx_key"} ELSE {}
LostAtEnd(fn) == IF fn = "schannel pkcs12" THEN {"at"} ELSE {}

\* Whichever step fails, and whatever part of it had been acquired, nothing else
\* is left: no keychain file in /tmp, no half-made SSL object.
FailureHoldsNothing == at.pc = 0 => acquired \subseteq LostOnFailure(at.fn)

\* A session that has been freed leaves nothing else behind either, and what it
\* releases is there to be released.
FreedHoldsNothing ==
    /\ at.pc = Len(Program(at.fn)) + 2 => acquired \subseteq LostAtEnd(at.fn)
    /\ ~twice

\* Whichever step fails, and after the free, the platform's objects have all
\* been given back, each once, but for the two of SChannel's PKCS#12 loader
\* (beans_tls_client_new, beans_tls_add_identity).
NothingLeaks == FailureHoldsNothing /\ FreedHoldsNothing

\* Objects of the TLS backends are owned once, live while they are used and
\* are given back, but for what LateChallenge, LostOnFailure and LostAtEnd name
\* (TlsListener, TlsIdentity).
TlsObjectsKept == ConnectionsKept /\ NothingLeaks
=============================================================================
