--------------------------- MODULE LanguageServer ---------------------------
(***************************************************************************)
(* The language server (src/compiler/langserver/lang_server.cpp): one loop *)
(* that handles a message at a time. Every change of a document starts a   *)
(* compiler for each open document and each module they use, on copies of  *)
(* all open texts; a compiler that fails leaves no result.                 *)
(* A document's text stands for what the compiler finds in it: its root    *)
(* symbols with their members, the modules it uses, whether it has errors. *)
(***************************************************************************)
EXTENDS Integers, Sequences, FiniteSets

CONSTANTS Uris,          (* documents; a file has one URI                  *)
          Sources,       (* the URIs of .dq files                          *)
          Texts,         (* texts                                          *)
          Symbols,       (* Symbols[t]: root name -> members               *)
          UsesOf,        (* UsesOf[t]: the files the text uses             *)
          Broken,        (* the texts with errors                          *)
          Disk,          (* Disk[u]: the text of the file on disk          *)
          MaxVersion     (* bound: changes of a document                   *)

ASSUME LanguageServerAssumption ==
  /\ Sources \subseteq Uris /\ Broken \subseteq Texts /\ MaxVersion \in Nat
  /\ \A t \in Texts : UsesOf[t] \subseteq Uris
  /\ IsFiniteSet(Uris) /\ \A t \in Texts : IsFiniteSet(DOMAIN Symbols[t])
  /\ \A u \in Uris : Disk[u] \in Texts

VARIABLES server,        (* the flags of ODqLanguageServer                 *)
          documents,     (* the open documents: version and text           *)
          document_symbols, namespaces,   (* what the compilers found last *)
          published,     (* the last diagnostics published for a document  *)
          failed,        (* the compilers of the last analysis that failed *)
          message,       (* the message handled last                       *)
          reply          (* ... and what it was answered                   *)

serverVars == <<server, documents, document_symbols, namespaces, published, failed, message, reply>>
tables == <<document_symbols, namespaces, published, failed>>

NoMessage == [method |-> "none", id |-> FALSE, params |-> TRUE, uri |-> "none", text |-> "none"]
Never == [version |-> -1, errors |-> {}]
EmptyMap == [x \in {} |-> {}]

ServerInit ==
  /\ server = [initialize_received |-> FALSE, initialized |-> FALSE, shutdown_requested |-> FALSE,
               should_exit |-> FALSE, exit_status |-> 1]
  /\ documents = EmptyMap /\ document_symbols = EmptyMap /\ namespaces = EmptyMap
  /\ published = [u \in Uris |-> Never]
  /\ failed = {} /\ message = NoMessage /\ reply = "none"
-----------------------------------------------------------------------------
TextOnDisk(docs, u) == Disk[u]  (* as it would be without the staging *)
TextOf(docs, u) == IF u \in DOMAIN docs THEN docs[u].text ELSE Disk[u]

(* Reanalyze: the open .dq documents, then what they use, but not what     *)
(* those use in turn; every one in a compiler of its own.                  *)
Analysed(docs) ==
  LET open == DOMAIN docs \cap Sources
  IN  open \cup (Sources \cap UNION {UsesOf[docs[u].text] : u \in open})

(* RunWorker: symbols and diagnostics come from the result file and the    *)
(* output of the compiler. A compiler that dies without its result file    *)
(* leaves that of the one before it in the same analysis (the path is that *)
(* of the number of open documents): symbols that the tables, which are    *)
(* sets here, have already.                                                *)
RunWorker(docs, u, lost) ==
  IF u \in lost THEN [symbols |-> EmptyMap, errors |-> {}]
  ELSE [symbols |-> Symbols[TextOf(docs, u)],
        errors  |-> IF TextOf(docs, u) \in Broken THEN {TextOf(docs, u)} ELSE {}]

Published(docs, base, results) ==
  [u \in Uris |-> IF u \in DOMAIN docs
                  THEN [version |-> docs[u].version,
                        errors  |-> IF u \in DOMAIN results THEN results[u].errors ELSE {}]
                  ELSE base[u]]

(* StageDocuments may fail: then nothing is analysed and everything is     *)
(* published without diagnostics.                                          *)
Reanalyze(docs, base, staged, lost) ==
  LET results == [u \in IF staged THEN Analysed(docs) ELSE {} |-> RunWorker(docs, u, lost)]
      named   == UNION {DOMAIN results[u].symbols : u \in DOMAIN results}
  IN  /\ document_symbols' = [u \in {v \in DOMAIN results : DOMAIN results[v].symbols # {}} |-> results[u].symbols]
      /\ namespaces' = [n \in named |->
                          UNION {results[u].symbols[n] : u \in {v \in DOMAIN results : n \in DOMAIN results[v].symbols}}]
      /\ published' = Published(docs, base, results)
      /\ failed' = IF staged THEN lost ELSE Uris

(* A compiler may fail, and so may the staging of the documents.           *)
Analysis(docs, base) ==
  \/ Reanalyze(docs, base, FALSE, {})
  \/ \E lost \in SUBSET Analysed(docs) : Reanalyze(docs, base, TRUE, lost)
-----------------------------------------------------------------------------
(* DefinitionJson: what the document itself declares, after a qualifier a  *)
(* member of the type it names or is a variable of; else the only root     *)
(* symbol or, failing that, the only member of that name anywhere.         *)
Roots(n)   == {u \in DOMAIN document_symbols : n \in DOMAIN document_symbols[u]}
Members(n) == {m \in (DOMAIN document_symbols) \X (DOMAIN namespaces) :
                 m[2] \in DOMAIN document_symbols[m[1]] /\ n \in document_symbols[m[1]][m[2]]}

OnlyOne(S) == IF Cardinality(S) = 1 THEN S ELSE {}

DeclaredIn(u, name, scope, type) ==
  IF scope = "member" THEN <<u, type>> \in Members(name) ELSE u \in Roots(name)

Definition(u, name, scope, type) ==
  IF u \notin DOMAIN document_symbols \/ u \notin DOMAIN documents THEN {}
  ELSE IF DeclaredIn(u, name, scope, type) THEN {u}
  ELSE IF scope = "own" THEN {}
  ELSE IF Members(name) # {} /\ (scope = "member" \/ Roots(name) = {})
       THEN {m[1] : m \in OnlyOne(Members(name))}
  ELSE OnlyOne(Roots(name))

(* The flags that decide how a request is answered, in the order of        *)
(* Handle.                                                                 *)
Lifecycle == {"initialize", "initialized", "shutdown", "exit", "$/cancelRequest"}
Queries   == {"documentSymbol", "definition", "completion"}
Changes   == {"didOpen", "didChange", "didClose", "didSave"}
Ready == server.initialize_received /\ server.initialized

Refused(m) == m.method \notin Lifecycle /\ (~Ready \/ server.shutdown_requested \/ ~m.params
                                              \/ m.method \notin Queries \cup Changes)

Receive(m) == ~server.should_exit /\ message' = m

(* A message without a method, which only a request is told.               *)
InvalidRequest(m) ==
  /\ Receive(m) /\ m.method = "invalid"
  /\ reply' = IF m.id THEN "error" ELSE "none"
  /\ UNCHANGED <<server, documents, tables>>

Initialize(m) ==
  /\ Receive(m) /\ m.method = "initialize"
  /\ server' = IF m.id THEN [server EXCEPT !.initialize_received = TRUE] ELSE server
  /\ reply' = IF ~m.id THEN "none" ELSE IF server.initialize_received THEN "error" ELSE "result"
  /\ UNCHANGED <<documents, tables>>

Initialized(m) ==
  /\ Receive(m) /\ m.method = "initialized"
  /\ reply' = "none"
  /\ IF server.initialize_received /\ ~server.shutdown_requested
     THEN server' = [server EXCEPT !.initialized = TRUE] /\ Analysis(documents, published)
     ELSE UNCHANGED <<server, tables>>
  /\ UNCHANGED documents

Shutdown(m) ==
  /\ Receive(m) /\ m.method = "shutdown"
  /\ reply' = IF ~m.id THEN "none" ELSE IF server.initialize_received THEN "result" ELSE "error"
  /\ server' = [server EXCEPT !.shutdown_requested = @ \/ (m.id /\ server.initialize_received)]
  /\ UNCHANGED <<documents, tables>>

ExitServer(m) ==
  /\ Receive(m) /\ m.method = "exit"
  /\ server' = [server EXCEPT !.should_exit = TRUE, !.exit_status = IF server.shutdown_requested THEN 0 ELSE 1]
  /\ reply' = "none" /\ UNCHANGED <<documents, tables>>

Ignore(m) ==
  /\ Receive(m) /\ m.method = "$/cancelRequest"
  /\ reply' = "none" /\ UNCHANGED <<server, documents, tables>>

Refuse(m) ==
  /\ Receive(m) /\ m.method # "invalid" /\ Refused(m)
  /\ reply' = IF m.id THEN "error" ELSE "none"
  /\ UNCHANGED <<server, documents, tables>>

(* Without a document in the parameters nothing happens, whoever waits.    *)
Dropped(m) ==
  /\ Receive(m) /\ m.method \in Queries \cup Changes /\ ~Refused(m) /\ m.uri = "none"
  /\ reply' = "none" /\ UNCHANGED <<server, documents, tables>>

Usable(m, S) == Receive(m) /\ m.method \in S /\ ~Refused(m) /\ m.uri # "none"

(* Queries read the tables of the last analysis and always answer.         *)
Answer(m) ==
  /\ Usable(m, Queries)
  /\ reply' = "result" /\ UNCHANGED <<server, documents, tables>>

DidSave(m) ==
  /\ Usable(m, {"didSave"})
  /\ IF m.uri \in DOMAIN documents THEN Analysis(documents, published) ELSE UNCHANGED tables
  /\ reply' = "none" /\ UNCHANGED <<server, documents>>

(* A closed document loses its diagnostics, the others are analysed again. *)
DidClose(m) ==
  /\ Usable(m, {"didClose"})
  /\ documents' = [u \in DOMAIN documents \ {m.uri} |-> documents[u]]
  /\ Analysis(documents', IF m.uri \in DOMAIN documents THEN [published EXCEPT ![m.uri].errors = {}] ELSE published)
  /\ reply' = "none" /\ UNCHANGED server

NextVersion(u) == IF u \in DOMAIN documents THEN documents[u].version + 1 ELSE 1

(* didOpen and didChange replace the whole text; a change of a document    *)
(* that is not open opens it.                                              *)
DidOpenOrChange(m) ==
  /\ Usable(m, {"didOpen", "didChange"})
  /\ IF m.text = "none" THEN UNCHANGED <<documents, tables>>
     ELSE /\ documents' = [u \in DOMAIN documents \cup {m.uri} |->
                             IF u # m.uri THEN documents[u]
                             ELSE [version |-> NextVersion(u), text |-> m.text]]
          /\ documents'[m.uri].version <= MaxVersion
          /\ Analysis(documents', published)
  /\ reply' = "none" /\ UNCHANGED server

(* The messages of a client: any method as a request or a notification,    *)
(* with or without usable parameters.                                      *)
Methods == Lifecycle \cup Queries \cup Changes \cup {"invalid", "unknown"}
Messages ==
  {m \in [method : Methods, id : BOOLEAN, params : BOOLEAN, uri : Uris \cup {"none"}, text : Texts \cup {"none"}] :
     /\ m.uri = "none" \/ (m.params /\ m.method \in Queries \cup Changes)
     /\ m.text = "none" \/ (m.uri # "none" /\ m.method \in {"didOpen", "didChange"})
     /\ m.id => m.method \notin Changes}

Handle(m) ==
  \/ InvalidRequest(m) \/ Initialize(m) \/ Initialized(m) \/ Shutdown(m) \/ ExitServer(m) \/ Ignore(m)
  \/ Refuse(m) \/ Dropped(m) \/ Answer(m) \/ DidSave(m) \/ DidClose(m) \/ DidOpenOrChange(m)

ServerNext == \E m \in Messages : Handle(m)

ServerSpec == ServerInit /\ [][ServerNext]_serverVars
-----------------------------------------------------------------------------
(* The types of the server.                                                *)
ServerTypeOK ==
  /\ DOMAIN documents \subseteq Uris
  /\ \A u \in DOMAIN documents : documents[u].version \in 1..MaxVersion /\ documents[u].text \in Texts
  /\ DOMAIN document_symbols \subseteq Uris /\ reply \in {"none", "result", "error"}

(* Whatever was opened, changed, saved and closed in whatever order, an    *)
(* open document shows the diagnostics of its own newest version, and they *)
(* are empty only if its text is free of errors or its compiler failed; a  *)
(* closed one shows none (PublishDiagnostics, Reanalyze).                  *)
FreshDiagnostics ==
  Ready => \A u \in Uris :
    IF u \in DOMAIN documents
    THEN /\ published[u].version = documents[u].version
         /\ published[u].errors = IF documents[u].text \in Broken /\ u \in Sources \ failed
                                  THEN {documents[u].text} ELSE {}
    ELSE published[u].errors = {}

(* Queries are answered from the newest text of each open document and     *)
(* never from a file on disk that is open (StageDocuments, Reanalyze).     *)
SymbolsAreCurrent ==
  Ready => \A u \in DOMAIN documents \cap (Sources \ failed) :
    DOMAIN Symbols[documents[u].text] # {} =>
       u \in DOMAIN document_symbols /\ document_symbols[u] = Symbols[documents[u].text]

(* A definition is never guessed: at most one place is given, it holds the *)
(* name, and the document's own declaration wins (DefinitionJson).         *)
AllNames == UNION {DOMAIN Symbols[t] \cup UNION {Symbols[t][c] : c \in DOMAIN Symbols[t]} : t \in Texts}
DefinitionIsCertain ==
  \A u \in DOMAIN documents, n \in AllNames, scope \in {"own", "plain", "member"}, type \in AllNames :
    LET found == Definition(u, n, scope, type)
    IN  /\ Cardinality(found) <= 1
        /\ \A v \in found : n \in DOMAIN document_symbols[v]
                            \/ \E c \in DOMAIN document_symbols[v] : n \in document_symbols[v][c]
        /\ DeclaredIn(u, n, scope, type) => found = {u}

(* Requests are answered in every phase and notifications never (Handle).  *)
(* The exceptions: a query without a document in its parameters gets no    *)
(* answer, and a query without an id gets one.                             *)
RequestsAnswered ==
  /\ ~message.id /\ message.method \notin Queries => reply = "none"
  /\ message.id /\ message.method \in Queries \cup {"initialize", "shutdown", "invalid", "unknown"} =>
       \/ reply # "none"
       \/ message.method \in Queries /\ message.uri = "none"
=============================================================================
