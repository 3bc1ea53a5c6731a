----------------------------- MODULE DocRegistry -----------------------------
(***************************************************************************)
(* The documents that the HTTP server knows (server_cache_state), and the  *)
(* registry of them that POST /docs keeps in the replicated database under *)
(* one key. The handler adds the document to known_docs_, writes the whole *)
(* set, and waits for the put; the poller adds what the registry of the    *)
(* database it reads names. A put that was sent again may be executed      *)
(* after a later one (SubmitPut).                                          *)
(***************************************************************************)
EXTENDS Integers, Sequences

CONSTANTS Doc,
          Database, \* the databases of the replicas
          Creation  \* the POST /docs requests

VARIABLES known_docs, \* known_docs_, and by_doc_
          create,     \* per creation: [pc, doc, reg]
          registry,   \* the registry values in the order of their execution
          registryApplied, \* how many of them a database has
          registryLeader   \* leader_, whose database the poller reads

registryVars == <<known_docs, create, registry, registryApplied, registryLeader>>

NoCreation == [pc |-> "idle", reg |-> {}, doc |-> {}]

RegistryInit ==
    /\ known_docs = {}
    /\ create = [c \in Creation |-> NoCreation]
    /\ registry = <<>>
    /\ registryApplied = [r \in Database |-> 0]
    /\ registryLeader \in Database

-----------------------------------------------------------------------------
\* The documents that the registry in a database names; none before it exists.
parse_docs_registry(n) == IF n = 0 THEN {} ELSE registry[n]

Learn(reg) == known_docs \cup reg

\* Any request that names a document makes it known.
ensure_doc(d) == known_docs \cup {d}

\* GET /doc/d, its stream, and the POSTs to it.
TouchDoc(d) ==
    /\ known_docs' = ensure_doc(d)
    /\ UNCHANGED <<create, registry, registryApplied, registryLeader>>

\* POST /docs up to the wait.
PostDocs(c, d) ==
    /\ create[c].pc = "idle"
    /\ known_docs' = ensure_doc(d)
    /\ create' = [create EXCEPT ![c] = [pc |-> "waiting", doc |-> {d}, reg |-> known_docs']]
    /\ UNCHANGED <<registry, registryApplied, registryLeader>>

\* The put of a creation is executed, by the leader first.
ExecuteRegistry(c) ==
    /\ create[c].pc \in {"waiting", "timeout"}
    /\ registry' = Append(registry, create[c].reg)
    /\ create' = [create EXCEPT ![c].pc = IF @ = "waiting" THEN "executed" ELSE "late"]
    /\ UNCHANGED <<known_docs, registryApplied, registryLeader>>

ApplyRegistry(r) ==
    /\ registryApplied[r] < Len(registry)
    /\ registryApplied' = [registryApplied EXCEPT ![r] = @ + 1]
    /\ UNCHANGED <<known_docs, create, registry, registryLeader>>

\* The browser gets 200, or 504.
PostDocsDone(c) ==
    /\ \/ create[c].pc = "executed" /\ create' = [create EXCEPT ![c].pc = "done"] /\ registryLeader' \in Database
       \/ create[c].pc = "waiting" /\ create' = [create EXCEPT ![c].pc = "timeout"] /\ UNCHANGED registryLeader
    /\ UNCHANGED <<known_docs, registry, registryApplied>>

poll_doc_cache ==
    /\ known_docs' = Learn(parse_docs_registry(registryApplied[registryLeader]))
    /\ UNCHANGED <<create, registry, registryApplied, registryLeader>>

RegistryNext ==
    \/ \E d \in Doc : TouchDoc(d)
    \/ \E c \in Creation : (\E d \in Doc : PostDocs(c, d)) \/ ExecuteRegistry(c) \/ PostDocsDone(c)
    \/ \E r \in Database : ApplyRegistry(r)
    \/ poll_doc_cache

RegistrySpec == RegistryInit /\ [][RegistryNext]_registryVars

-----------------------------------------------------------------------------
(***************************************************************************)
(* A document whose creation was answered with 200 is in the registry that *)
(* the database has: POST /docs "persists the registry" and "new document  *)
(* ids survive across replicas" (labnotebook.md, WRITEUP_KATHRYN.md).      *)
(***************************************************************************)
CreatedPersists ==
    \A c \in Creation :
        create[c].pc = "done" => create[c].doc \subseteq parse_docs_registry(Len(registry))

=============================================================================
