----------------------------- MODULE LspServer -----------------------------
(***************************************************************************)
(* The language server (src/crates/lsp): an editor sends open, change and  *)
(* close notifications, each handler stores or removes a document and      *)
(* checks it on a blocking thread, and a check that ends publishes its     *)
(* diagnostics only if the stored version is still the one it read.        *)
(*                                                                         *)
(* tower-lsp polls the handlers in one task, in the order the messages     *)
(* arrive, at most MaxHandlers of them at a time, so a handler runs        *)
(* without interruption up to the await on its blocking thread (Receive)   *)
(* and from there to its end (Conclude); checks end in any order.          *)
(*                                                                         *)
(* A list of diagnostics is represented by the text it was made for, the   *)
(* empty list by Nothing.                                                  *)
(***************************************************************************)
EXTENDS Naturals, Sequences, FiniteSets

CONSTANTS Uris, Texts, Nothing,
          Silent,       \* texts checked without a diagnostic: clean, or panicking
          MaxHandlers,  \* handlers tower-lsp runs at a time
          MaxVersion,   \* bound on the versions the editor hands out
          MaxInbox,     \* bound on the messages on their way
          Restart       \* does an editor number a reopened document from 1 again?

Versions == 0..MaxVersion
Handlers == 1..MaxHandlers
Document == [source : Texts, version : Versions]

ASSUME LspAssumption ==
    /\ Nothing \notin Texts \cup Uris \cup Document /\ Silent \subseteq Texts
    /\ MaxHandlers \in Nat \ {0} /\ MaxVersion \in Nat /\ MaxInbox \in Nat
    /\ Restart \in BOOLEAN

VARIABLES editor,     \* the editor's documents
          inbox,      \* notifications sent and not yet handled
          documents,  \* Backend.documents
          handler,    \* the handlers waiting for their check
          shown       \* the diagnostics the editor shows

vars == <<editor, inbox, documents, handler, shown>>

Idle == [uri |-> Nothing]

Check    == [uri : Uris, version : Versions, source : Texts]
Message  == [kind : {"open", "change"}, uri : Uris, version : Versions,
             text : Texts \cup {Nothing}]
              \cup [kind : {"close"}, uri : Uris]

TypeOK ==
    /\ editor \in [Uris -> [open : BOOLEAN, text : Texts \cup {Nothing}, version : Versions]]
    /\ inbox \in Seq(Message)
    /\ documents \in [Uris -> Document \cup {Nothing}]
    /\ handler \in [Handlers -> Check \cup {Idle}]
    /\ shown \in [Uris -> Texts \cup {Nothing}]

Init ==
    /\ editor = [u \in Uris |-> [open |-> FALSE, text |-> Nothing, version |-> 0]]
    /\ inbox = <<>>
    /\ documents = [u \in Uris |-> Nothing]
    /\ handler = [h \in Handlers |-> Idle]
    /\ shown = [u \in Uris |-> Nothing]

-----------------------------------------------------------------------------
(* The editor.  A version grows with every change of an open document;      *)
(* Restart says whether a reopened one starts from 1 again.                 *)

Send(m) == Len(inbox) < MaxInbox /\ inbox' = Append(inbox, m)

NextVersion(u) == editor[u].version + 1

Opens(u, t) ==
    LET v == IF Restart THEN 1 ELSE NextVersion(u)
    IN  /\ ~editor[u].open /\ v <= MaxVersion
        /\ editor' = [editor EXCEPT ![u] = [open |-> TRUE, text |-> t, version |-> v]]
        /\ Send([kind |-> "open", uri |-> u, version |-> v, text |-> t])
        /\ UNCHANGED <<documents, handler, shown>>

Changes(u, t) ==
    LET v == NextVersion(u)
    IN  /\ editor[u].open /\ v <= MaxVersion
        /\ editor' = [editor EXCEPT ![u] = [open |-> TRUE, text |-> t, version |-> v]]
        /\ Send([kind |-> "change", uri |-> u, version |-> v, text |-> t])
        /\ UNCHANGED <<documents, handler, shown>>

\* A change notification that lists no change: the version grows all the same.
ChangesNothing(u) ==
    LET v == NextVersion(u)
    IN  /\ editor[u].open /\ v <= MaxVersion
        /\ editor' = [editor EXCEPT ![u] = [open |-> TRUE, text |-> @.text, version |-> v]]
        /\ Send([kind |-> "change", uri |-> u, version |-> v, text |-> Nothing])
        /\ UNCHANGED <<documents, handler, shown>>

Closes(u) ==
    /\ editor[u].open
    /\ editor' = [editor EXCEPT ![u] = [open |-> FALSE, text |-> Nothing, version |-> @.version]]
    /\ Send([kind |-> "close", uri |-> u])
    /\ UNCHANGED <<documents, handler, shown>>

-----------------------------------------------------------------------------
(* The server.                                                              *)

Diagnose(t) == IF t \in Silent THEN Nothing ELSE t

Publish(u, diagnostics) == shown' = [shown EXCEPT ![u] = diagnostics]

\* did_open and did_change up to the await: store the document, read it back
\* and hand it to a blocking thread.
Store(h, m) ==
    /\ m.kind \in {"open", "change"} /\ m.text # Nothing
    /\ documents' = [documents EXCEPT ![m.uri] = [source |-> m.text, version |-> m.version]]
    /\ handler' = [handler EXCEPT
           ![h] = [uri |-> m.uri, version |-> m.version, source |-> m.text]]
    /\ UNCHANGED shown

\* Mutant: the empty change moves the stored version on and checks nothing.
IgnoreButNumber(m) ==
    /\ m.kind = "change" /\ m.text = Nothing
    /\ documents' = [documents EXCEPT ![m.uri].version = m.version]
    /\ UNCHANGED <<handler, shown>>

\* did_change with no content change: an early return, the old version stays.
Ignore(m) ==
    /\ m.kind = "change" /\ m.text = Nothing
    /\ UNCHANGED <<documents, handler, shown>>

\* Mutant: the document of a closed file is kept.
did_close_kept(m) ==
    /\ m.kind = "close"
    /\ Publish(m.uri, Nothing)
    /\ UNCHANGED <<documents, handler>>

did_close(m) ==
    /\ m.kind = "close"
    /\ documents' = [documents EXCEPT ![m.uri] = Nothing]
    /\ Publish(m.uri, Nothing)
    /\ UNCHANGED handler

Receive(h) ==
    /\ inbox # <<>> /\ handler[h] = Idle
    /\ inbox' = Tail(inbox)
    /\ LET m == Head(inbox) IN Store(h, m) \/ Ignore(m) \/ did_close(m)
    /\ UNCHANGED editor

\* Mutant: any stored document will do.
StillOpen(c) == documents[c.uri] # Nothing

\* The check of c is still of the stored version.
Current(c) == documents[c.uri] # Nothing /\ documents[c.uri].version = c.version

\* analyze_and_publish after the await.
Conclude(h) ==
    /\ handler[h] # Idle
    /\ LET c == handler[h]
       IN  IF Current(c) THEN Publish(c.uri, Diagnose(c.source)) ELSE UNCHANGED shown
    /\ handler' = [handler EXCEPT ![h] = Idle]
    /\ UNCHANGED <<editor, inbox, documents>>

Next ==
    \/ \E u \in Uris, t \in Texts : Opens(u, t) \/ Changes(u, t)
    \/ \E u \in Uris : ChangesNothing(u) \/ Closes(u)
    \/ \E h \in Handlers : Receive(h) \/ Conclude(h)

\* tower-lsp takes the next message whenever a handler is free, and every
\* check ends: check_source is a bounded computation on one text.
Fairness ==
    /\ WF_vars(\E h \in Handlers : Receive(h))
    /\ \A h \in Handlers : WF_vars(Conclude(h))

Spec == Init /\ [][Next]_vars /\ Fairness

-----------------------------------------------------------------------------
(* What the server promises.                                                *)

\* A check publishes only while the text it read is the stored one, whatever
\* arrived while it ran (analyze_and_publish).
PublishesCurrent ==
    [][\A h \in Handlers :
          LET c == handler[h] IN
          c # Idle /\ handler'[h] = Idle /\ shown' # shown
            => documents[c.uri] # Nothing /\ documents[c.uri].source = c.source]_vars

Quiet(u) ==
    /\ \A i \in 1..Len(inbox) : inbox[i].uri # u
    /\ \A h \in Handlers : handler[h].uri # u

\* When nothing is under way for a document, the editor shows the diagnostics
\* of the text it has, and none for a closed one: no late check, no close and
\* no ignored change leaves an older answer standing.
QuietIsCurrent ==
    \A u \in Uris : Quiet(u) =>
        shown[u] = IF editor[u].open THEN Diagnose(editor[u].text) ELSE Nothing

\* Every text gets its answer unless the editor moves on: no chain of dropped
\* checks leaves the last edit unanswered.
EveryTextAnswered ==
    \A u \in Uris, t \in Texts :
        (editor[u].open /\ editor[u].text = t)
            ~> (shown[u] = Diagnose(t) \/ ~editor[u].open \/ editor[u].text # t)

=============================================================================
