-------------------------- MODULE LspServerProofs --------------------------
(***************************************************************************)
(* Proofs about LspServer for any number of documents, texts, handlers,    *)
(* versions and messages: with an editor that never hands out a version    *)
(* twice, a check publishes only for the stored text, and a document with  *)
(* nothing under way shows the diagnostics of its text.                    *)
(***************************************************************************)
EXTENDS LspServer, TLAPS

-----------------------------------------------------------------------------
(* The inductive invariant.                                                 *)

Numbered(m) == m.kind # "close"

\* Messages of one document carry growing versions, none above the editor's.
InboxNumbered ==
    \A i \in 1..Len(inbox) : Numbered(inbox[i]) =>
        /\ inbox[i].version <= editor[inbox[i].uri].version
        /\ \A j \in 1..Len(inbox) :
              i < j /\ Numbered(inbox[j]) /\ inbox[j].uri = inbox[i].uri
                  => inbox[i].version < inbox[j].version

\* A running check is of a version older than any still to arrive.
ChecksNumbered ==
    \A h \in Handlers : handler[h] # Idle =>
        /\ handler[h].version <= editor[handler[h].uri].version
        /\ \A i \in 1..Len(inbox) :
              Numbered(inbox[i]) /\ inbox[i].uri = handler[h].uri
                  => handler[h].version < inbox[i].version

\* What the version check relies on: one version, one text.
VersionTellsText ==
    \A h \in Handlers : handler[h] # Idle /\ Current(handler[h])
        => documents[handler[h].uri].source = handler[h].source

\* The message that decides the text of u: every one but an empty change.
Sets(m, u) == m.uri = u /\ (m.kind = "close" \/ m.text # Nothing)
After(m)   == IF m.kind = "close" THEN Nothing ELSE m.text

EditorText(u) == IF editor[u].open THEN editor[u].text ELSE Nothing
StoredText(u) == IF documents[u] = Nothing THEN Nothing ELSE documents[u].source

LastToSet(u, i) == Sets(inbox[i], u) /\ \A j \in (i+1)..Len(inbox) : ~Sets(inbox[j], u)

\* The editor's text is the last one on its way, or the stored one.
EditorMirrored ==
    \A u \in Uris :
        /\ \A i \in 1..Len(inbox) : LastToSet(u, i) => After(inbox[i]) = EditorText(u)
        /\ (\A i \in 1..Len(inbox) : ~Sets(inbox[i], u)) => StoredText(u) = EditorText(u)

OpenHasText == \A u \in Uris : editor[u].open => editor[u].text \in Texts

\* The stored text has been answered, or a check of it is still running.
AnswerComing ==
    \A u \in Uris :
        IF documents[u] = Nothing
        THEN shown[u] = Nothing
        ELSE \/ shown[u] = Diagnose(documents[u].source)
             \/ \E h \in Handlers : /\ handler[h] # Idle /\ handler[h].uri = u
                                    /\ handler[h].version = documents[u].version

Inv == /\ InboxNumbered /\ ChecksNumbered /\ VersionTellsText
       /\ EditorMirrored /\ OpenHasText /\ AnswerComing

-----------------------------------------------------------------------------
(* Sequences of messages.                                                   *)

LEMMA InboxAppend ==
    ASSUME TypeOK, NEW m \in Message, inbox' = Append(inbox, m)
    PROVE  /\ inbox' \in Seq(Message)
           /\ Len(inbox) \in Nat /\ Len(inbox') = Len(inbox) + 1
           /\ inbox'[Len(inbox) + 1] = m
           /\ \A i \in 1..Len(inbox) : inbox'[i] = inbox[i]
BY DEF TypeOK

LEMMA InboxTail ==
    ASSUME TypeOK, inbox # <<>>, inbox' = Tail(inbox)
    PROVE  /\ inbox' \in Seq(Message) /\ Head(inbox) \in Message
           /\ Len(inbox) \in Nat /\ Len(inbox) >= 1 /\ Len(inbox') = Len(inbox) - 1
           /\ Head(inbox) = inbox[1]
           /\ \A i \in 1..Len(inbox') : inbox'[i] = inbox[i + 1]
BY DEF TypeOK

LEMMA InboxMembers ==
    ASSUME TypeOK
    PROVE  /\ Len(inbox) \in Nat
           /\ \A i \in 1..Len(inbox) : inbox[i] \in Message /\ inbox[i].uri \in Uris
           /\ \A i \in 1..Len(inbox) : Numbered(inbox[i]) => inbox[i].version \in Nat
BY LspAssumption DEF TypeOK, Message, Numbered, Versions

LEMMA CheckMembers ==
    ASSUME TypeOK, NEW h \in Handlers, handler[h] # Idle
    PROVE  handler[h] \in Check /\ handler[h].uri \in Uris /\ handler[h].version \in Nat
BY LspAssumption DEF TypeOK, Check, Versions

-----------------------------------------------------------------------------
(* Types.                                                                   *)

\* What every step of the editor is: a new record for u, and a message that
\* tells of it.
EditorStep(u, e, m) ==
    /\ editor' = [editor EXCEPT ![u] = e]
    /\ inbox' = Append(inbox, m)
    /\ UNCHANGED <<documents, handler, shown>>
    /\ m \in Message /\ m.uri = u
    /\ e \in [open : BOOLEAN, text : Texts \cup {Nothing}, version : Versions]
    /\ e.open => e.text \in Texts
    /\ IF Sets(m, u)
       THEN After(m) = IF e.open THEN e.text ELSE Nothing
       ELSE e.open /\ editor[u].open /\ e.text = editor[u].text

Growing(u, e, m) ==
    /\ editor[u].version <= e.version
    /\ Numbered(m) => editor[u].version < m.version /\ m.version = e.version

LEMMA EditorSteps ==
    ASSUME TypeOK, OpenHasText, NEW u \in Uris,
           \/ \E t \in Texts : Opens(u, t) \/ Changes(u, t)
           \/ ChangesNothing(u)
           \/ Closes(u)
    PROVE  \E e, m : EditorStep(u, e, m) /\ (~Restart => Growing(u, e, m))
<1>0. editor[u] \in [open : BOOLEAN, text : Texts \cup {Nothing}, version : Versions]
  BY DEF TypeOK
<1>v. /\ editor[u].version \in Nat /\ NextVersion(u) \in Nat /\ 1 \in Nat
      /\ editor[u].version < NextVersion(u) /\ editor[u].version <= editor[u].version
  BY <1>0, LspAssumption DEF NextVersion, Versions
<1>n. ASSUME NEW v \in Nat, v <= MaxVersion PROVE v \in Versions
  BY <1>n, LspAssumption DEF Versions
<1>t. \A t \in Texts : t # Nothing
  BY LspAssumption
<1>1. ASSUME NEW t \in Texts, Opens(u, t)
      PROVE  \E e, m : EditorStep(u, e, m) /\ (~Restart => Growing(u, e, m))
  <2> DEFINE v == IF Restart THEN 1 ELSE NextVersion(u)
             e == [open |-> TRUE, text |-> t, version |-> v]
             m == [kind |-> "open", uri |-> u, version |-> v, text |-> t]
  <2>1. v \in Versions
    BY <1>1, <1>v, <1>n, LspAssumption DEF Opens
  <2>2. m \in Message /\ e \in [open : BOOLEAN, text : Texts \cup {Nothing}, version : Versions]
    BY <2>1 DEF Message
  <2>3. Sets(m, u) /\ After(m) = t
    BY <1>t DEF Sets, After
  <2>4. EditorStep(u, e, m)
    BY <1>1, <2>2, <2>3 DEF EditorStep, Opens, Send
  <2>5. ~Restart => Growing(u, e, m)
    BY <1>v DEF Growing
  <2> QED  BY <2>4, <2>5
<1>2. ASSUME NEW t \in Texts, Changes(u, t)
      PROVE  \E e, m : EditorStep(u, e, m) /\ (~Restart => Growing(u, e, m))
  <2> DEFINE v == NextVersion(u)
             e == [open |-> TRUE, text |-> t, version |-> v]
             m == [kind |-> "change", uri |-> u, version |-> v, text |-> t]
  <2>1. v \in Versions
    BY <1>2, <1>v, <1>n DEF Changes
  <2>2. m \in Message /\ e \in [open : BOOLEAN, text : Texts \cup {Nothing}, version : Versions]
    BY <2>1 DEF Message
  <2>3. Sets(m, u) /\ After(m) = t
    BY <1>t DEF Sets, After
  <2>4. editor' = [editor EXCEPT ![u] = e]
    BY <1>2 DEF Changes
  <2>5. EditorStep(u, e, m)
    BY <1>2, <2>2, <2>3, <2>4 DEF EditorStep, Changes, Send
  <2>6. Growing(u, e, m)
    BY <1>v DEF Growing
  <2> QED  BY <2>5, <2>6
<1>3. ASSUME ChangesNothing(u)
      PROVE  \E e, m : EditorStep(u, e, m) /\ (~Restart => Growing(u, e, m))
  <2> DEFINE v == NextVersion(u)
             e == [open |-> TRUE, text |-> editor[u].text, version |-> v]
             m == [kind |-> "change", uri |-> u, version |-> v, text |-> Nothing]
  <2>1. v \in Versions /\ editor[u].open /\ editor[u].text \in Texts
    BY <1>3, <1>v, <1>n DEF ChangesNothing, OpenHasText
  <2>2. m \in Message /\ e \in [open : BOOLEAN, text : Texts \cup {Nothing}, version : Versions]
    BY <2>1 DEF Message
  <2>3. ~Sets(m, u)
    BY DEF Sets
  <2>4. editor' = [editor EXCEPT ![u] = e]
    BY <1>3 DEF ChangesNothing
  <2>5. EditorStep(u, e, m)
    BY <1>3, <2>1, <2>2, <2>3, <2>4 DEF EditorStep, ChangesNothing, Send
  <2>6. Growing(u, e, m)
    BY <1>v DEF Growing
  <2> QED  BY <2>5, <2>6
<1>4. ASSUME Closes(u)
      PROVE  \E e, m : EditorStep(u, e, m) /\ (~Restart => Growing(u, e, m))
  <2> DEFINE e == [open |-> FALSE, text |-> Nothing, version |-> editor[u].version]
             m == [kind |-> "close", uri |-> u]
  <2>2. m \in Message /\ e \in [open : BOOLEAN, text : Texts \cup {Nothing}, version : Versions]
    BY <1>0 DEF Message
  <2>3. Sets(m, u) /\ After(m) = Nothing
    BY DEF Sets, After
  <2>4. editor' = [editor EXCEPT ![u] = e]
    BY <1>4 DEF Closes
  <2>5. EditorStep(u, e, m)
    BY <1>4, <2>2, <2>3, <2>4 DEF EditorStep, Closes, Send
  <2>6. Growing(u, e, m)
    BY <1>v DEF Growing, Numbered
  <2> QED  BY <2>5, <2>6
<1> QED  BY <1>1, <1>2, <1>3, <1>4

-----------------------------------------------------------------------------
(* Types.  OpenHasText comes along: the editor's step needs it.             *)

LEMMA TypeInit == Init => TypeOK /\ OpenHasText
BY LspAssumption DEF Init, TypeOK, OpenHasText, Versions, Message

LEMMA EditorTypes ==
    ASSUME TypeOK, OpenHasText, NEW u \in Uris, NEW e, NEW m, EditorStep(u, e, m)
    PROVE  TypeOK' /\ OpenHasText'
<1>1. inbox' \in Seq(Message)
  BY InboxAppend DEF EditorStep
<1>2. TypeOK'
  BY <1>1 DEF TypeOK, EditorStep
<1>3. OpenHasText'
  BY DEF TypeOK, EditorStep, OpenHasText
<1> QED  BY <1>2, <1>3

LEMMA ReceiveTypes ==
    ASSUME TypeOK, OpenHasText, NEW h \in Handlers, Receive(h)
    PROVE  TypeOK' /\ OpenHasText'
<1> DEFINE m == Head(inbox)
<1>1. inbox' \in Seq(Message) /\ m \in Message
  BY InboxTail DEF Receive
<1>2. UNCHANGED editor /\ (Store(h, m) \/ Ignore(m) \/ did_close(m))
  BY DEF Receive
<1> HIDE DEF m
<1>3. ASSUME Store(h, m)
      PROVE  /\ documents' \in [Uris -> Document \cup {Nothing}]
             /\ handler' \in [Handlers -> Check \cup {Idle}]
             /\ shown' \in [Uris -> Texts \cup {Nothing}]
  <2>1. m.uri \in Uris /\ m.version \in Versions /\ m.text \in Texts
    BY <1>1, <1>3 DEF Message, Store
  <2>2. [source |-> m.text, version |-> m.version] \in Document
    BY <2>1 DEF Document
  <2>3. [uri |-> m.uri, version |-> m.version, source |-> m.text] \in Check
    BY <2>1 DEF Check
  <2> QED  BY <1>3, <2>2, <2>3 DEF Store, TypeOK
<1>4. ASSUME Ignore(m) \/ did_close(m)
      PROVE  /\ documents' \in [Uris -> Document \cup {Nothing}]
             /\ handler' \in [Handlers -> Check \cup {Idle}]
             /\ shown' \in [Uris -> Texts \cup {Nothing}]
  BY <1>4 DEF Ignore, did_close, Publish, TypeOK
<1> QED  BY <1>1, <1>2, <1>3, <1>4 DEF TypeOK, OpenHasText

LEMMA ConcludeTypes ==
    ASSUME TypeOK, OpenHasText, NEW h \in Handlers, Conclude(h)
    PROVE  TypeOK' /\ OpenHasText'
<1>1. handler[h] \in Check
  BY CheckMembers DEF Conclude
<1>2. Diagnose(handler[h].source) \in Texts \cup {Nothing}
  BY <1>1 DEF Diagnose, Check
<1>3. shown' \in [Uris -> Texts \cup {Nothing}]
  BY <1>1, <1>2 DEF Conclude, Publish, TypeOK
<1> QED  BY <1>3 DEF Conclude, TypeOK, OpenHasText

LEMMA TypeNext == TypeOK /\ OpenHasText /\ [Next]_vars => TypeOK' /\ OpenHasText'
<1> SUFFICES ASSUME TypeOK, OpenHasText, [Next]_vars PROVE TypeOK' /\ OpenHasText'
  OBVIOUS
<1>1. ASSUME NEW u \in Uris,
             \/ \E t \in Texts : Opens(u, t) \/ Changes(u, t)
             \/ ChangesNothing(u)
             \/ Closes(u)
      PROVE  TypeOK' /\ OpenHasText'
  BY <1>1, EditorSteps, EditorTypes
<1>2. ASSUME NEW h \in Handlers, Receive(h) \/ Conclude(h) PROVE TypeOK' /\ OpenHasText'
  BY <1>2, ReceiveTypes, ConcludeTypes
<1>3. CASE UNCHANGED vars
  BY <1>3 DEF vars, TypeOK, OpenHasText
<1> QED  BY <1>1, <1>2, <1>3 DEF Next

-----------------------------------------------------------------------------
(* Steps of the editor.                                                     *)

LEMMA EditorInv ==
    ASSUME TypeOK, Inv, NEW u \in Uris, NEW e, NEW m, EditorStep(u, e, m), Growing(u, e, m)
    PROVE  Inv'
<1> DEFINE n == Len(inbox)
<1>a. /\ n \in Nat /\ Len(inbox') = n + 1 /\ inbox'[n + 1] = m
      /\ \A i \in 1..n : inbox'[i] = inbox[i]
  BY InboxAppend DEF EditorStep
<1>i. \A i \in 1..(n + 1) : i \in 1..n \/ i = n + 1
  BY <1>a
<1>m. /\ \A i \in 1..n : inbox[i].uri \in Uris
      /\ \A i \in 1..n : Numbered(inbox[i]) => inbox[i].version \in Nat
  BY InboxMembers
<1>e. /\ \A w \in Uris : editor'[w] = IF w = u THEN e ELSE editor[w]
      /\ \A w \in Uris : editor[w].version \in Nat /\ editor'[w].version \in Nat
      /\ \A w \in Uris : editor[w].version <= editor'[w].version
      /\ Numbered(m) => editor[u].version < m.version /\ m.version = editor'[u].version
      /\ m.uri = u
  <2>1. \A w \in Uris : editor'[w] = IF w = u THEN e ELSE editor[w]
    BY DEF EditorStep, TypeOK
  <2>2. e.version \in Nat /\ \A w \in Uris : editor[w].version \in Nat
    BY LspAssumption DEF EditorStep, TypeOK, Versions
  <2>3. editor[u].version <= e.version /\ m.uri = u
    BY DEF Growing, EditorStep
  <2>4. \A w \in Uris : editor[w].version <= editor'[w].version
    BY <2>1, <2>2, <2>3
  <2>5. Numbered(m) => editor[u].version < m.version /\ m.version = editor'[u].version
    BY <2>1 DEF Growing
  <2> QED  BY <2>1, <2>2, <2>3, <2>4, <2>5
<1>s. UNCHANGED <<documents, handler, shown>>
  BY DEF EditorStep
<1> HIDE DEF n
<1>1. InboxNumbered'
  <2> SUFFICES ASSUME NEW i \in 1..(n + 1), Numbered(inbox'[i])
               PROVE  /\ inbox'[i].version <= editor'[inbox'[i].uri].version
                      /\ \A j \in 1..(n + 1) :
                            i < j /\ Numbered(inbox'[j]) /\ inbox'[j].uri = inbox'[i].uri
                                => inbox'[i].version < inbox'[j].version
    BY <1>a DEF InboxNumbered, Numbered
  <2>1. CASE i = n + 1
    <3>1. inbox'[i] = m
      BY <2>1, <1>a
    <3>2. \A j \in 1..(n + 1) : ~(i < j)
      BY <2>1, <1>a
    <3> QED  BY <3>1, <3>2, <1>e
  <2>2. CASE i \in 1..n
    <3>1. inbox'[i] = inbox[i] /\ inbox[i].version <= editor[inbox[i].uri].version
          /\ inbox[i].version \in Nat /\ inbox[i].uri \in Uris
      BY <2>2, <1>a, <1>m DEF Inv, InboxNumbered, n
    <3>2. inbox'[i].version <= editor'[inbox'[i].uri].version
      BY <3>1, <1>e
    <3>3. ASSUME NEW j \in 1..(n + 1), i < j, Numbered(inbox'[j]), inbox'[j].uri = inbox'[i].uri
          PROVE  inbox'[i].version < inbox'[j].version
      <4>1. CASE j = n + 1
        <5>1. inbox'[j] = m /\ inbox[i].uri = u
          BY <4>1, <3>1, <3>3, <1>a, <1>e
        <5> QED  BY <5>1, <3>1, <3>3, <1>e
      <4>2. CASE j \in 1..n
        <5>1. inbox'[j] = inbox[j]
          BY <4>2, <1>a
        <5> QED  BY <4>2, <5>1, <3>1, <3>3, <2>2 DEF Inv, InboxNumbered, n
      <4> QED  BY <4>1, <4>2, <1>i
    <3> QED  BY <3>2, <3>3
  <2> QED  BY <2>1, <2>2, <1>i
<1>2. ChecksNumbered'
  <2> SUFFICES ASSUME NEW h \in Handlers, handler[h] # Idle
               PROVE  /\ handler[h].version <= editor'[handler[h].uri].version
                      /\ \A i \in 1..(n + 1) :
                            Numbered(inbox'[i]) /\ inbox'[i].uri = handler[h].uri
                                => handler[h].version < inbox'[i].version
    BY <1>a, <1>s DEF ChecksNumbered, Numbered
  <2>1. /\ handler[h].version <= editor[handler[h].uri].version
        /\ handler[h].uri \in Uris /\ handler[h].version \in Nat
    BY CheckMembers DEF Inv, ChecksNumbered
  <2>2. handler[h].version <= editor'[handler[h].uri].version
    BY <2>1, <1>e
  <2>3. ASSUME NEW i \in 1..(n + 1), Numbered(inbox'[i]), inbox'[i].uri = handler[h].uri
        PROVE  handler[h].version < inbox'[i].version
    <3>1. CASE i = n + 1
      <4>1. inbox'[i] = m /\ handler[h].uri = u
        BY <3>1, <2>3, <1>a, <1>e
      <4> QED  BY <4>1, <2>1, <2>3, <1>e
    <3>2. CASE i \in 1..n
      <4>1. inbox'[i] = inbox[i]
        BY <3>2, <1>a
      <4> QED  BY <3>2, <4>1, <2>3 DEF Inv, ChecksNumbered, n
    <3> QED  BY <3>1, <3>2, <1>i
  <2> QED  BY <2>2, <2>3
<1>3. VersionTellsText'
  BY <1>s DEF Inv, VersionTellsText, Current
<1>4. EditorMirrored'
  <2> SUFFICES ASSUME NEW w \in Uris
               PROVE  /\ \A i \in 1..(n + 1) :
                            Sets(inbox'[i], w) /\ (\A j \in (i+1)..(n+1) : ~Sets(inbox'[j], w))
                               => After(inbox'[i]) = EditorText(w)'
                      /\ (\A i \in 1..(n + 1) : ~Sets(inbox'[i], w))
                               => StoredText(w) = EditorText(w)'
    BY <1>a, <1>s DEF EditorMirrored, LastToSet, Sets, After, StoredText
  <2>1. CASE Sets(m, w)
    <3>1. w = u /\ After(m) = EditorText(w)'
      BY <2>1, <1>e DEF Sets, EditorStep, EditorText
    <3>2. n + 1 \in 1..(n + 1)
      BY <1>a
    <3>3. ASSUME NEW i \in 1..n PROVE n + 1 \in (i+1)..(n+1)
      BY <1>a
    <3> QED  BY <2>1, <3>1, <3>2, <3>3, <1>a, <1>i
  <2>2. CASE ~Sets(m, w)
    <3>1. EditorText(w)' = EditorText(w)
      BY <2>2, <1>e DEF Sets, EditorStep, EditorText
    <3>2. ASSUME NEW i \in 1..(n + 1), Sets(inbox'[i], w),
                 \A j \in (i+1)..(n+1) : ~Sets(inbox'[j], w)
          PROVE  After(inbox'[i]) = EditorText(w)'
      <4>1. i \in 1..n /\ inbox'[i] = inbox[i]
        BY <2>2, <3>2, <1>a, <1>i
      <4>2. \A j \in (i+1)..n : j \in (i+1)..(n+1) /\ j \in 1..n
        BY <4>1, <1>a
      <4>3. LastToSet(w, i)
        BY <4>1, <4>2, <3>2, <1>a DEF LastToSet, n
      <4> QED  BY <4>1, <4>3, <3>1 DEF Inv, EditorMirrored, n
    <3>3. ASSUME \A i \in 1..(n + 1) : ~Sets(inbox'[i], w)
          PROVE  StoredText(w) = EditorText(w)'
      <4>1. \A i \in 1..n : i \in 1..(n + 1)
        BY <1>a
      <4>2. \A i \in 1..n : ~Sets(inbox[i], w)
        BY <4>1, <3>3, <1>a
      <4> QED  BY <4>2, <3>1 DEF Inv, EditorMirrored, n
    <3> QED  BY <3>2, <3>3
  <2> QED  BY <2>1, <2>2
<1>5. OpenHasText'
  BY EditorTypes DEF Inv
<1>6. AnswerComing'
  BY <1>s DEF Inv, AnswerComing
<1> QED  BY <1>1, <1>2, <1>3, <1>4, <1>5, <1>6 DEF Inv

-----------------------------------------------------------------------------
(* Steps of the server.                                                     *)

\* What Receive leaves of the inbox.
LEMMA ReceiveInbox ==
    ASSUME TypeOK, NEW h \in Handlers, Receive(h)
    PROVE  /\ Len(inbox) \in Nat /\ Len(inbox) >= 1 /\ Len(inbox') = Len(inbox) - 1
           /\ Head(inbox) = inbox[1] /\ 1 \in 1..Len(inbox) /\ inbox[1] \in Message
           /\ \A i \in 1..Len(inbox') :
                 /\ inbox'[i] = inbox[i + 1] /\ i + 1 \in 1..Len(inbox) /\ 1 < i + 1
                 /\ \A j \in 1..Len(inbox') : i < j => i + 1 < j + 1
           /\ \A i \in 1..Len(inbox) :
                 i = 1 \/ \E k \in 1..Len(inbox') : i = k + 1
BY InboxTail DEF Receive

LEMMA ReceiveNumbers ==
    ASSUME TypeOK, Inv, NEW h \in Handlers, Receive(h)
    PROVE  InboxNumbered' /\ ChecksNumbered'
<1> DEFINE m == inbox[1]
<1>a. /\ 1 \in 1..Len(inbox) /\ m \in Message
      /\ \A i \in 1..Len(inbox') :
            /\ inbox'[i] = inbox[i + 1] /\ i + 1 \in 1..Len(inbox) /\ 1 < i + 1
            /\ \A j \in 1..Len(inbox') : i < j => i + 1 < j + 1
  BY ReceiveInbox
<1>b. UNCHANGED editor /\ (Store(h, m) \/ Ignore(m) \/ did_close(m))
  BY ReceiveInbox DEF Receive
<1> HIDE DEF m
<1>1. InboxNumbered'
  <2> SUFFICES ASSUME NEW i \in 1..Len(inbox'), Numbered(inbox'[i])
               PROVE  /\ inbox'[i].version <= editor[inbox'[i].uri].version
                      /\ \A j \in 1..Len(inbox') :
                            i < j /\ Numbered(inbox'[j]) /\ inbox'[j].uri = inbox'[i].uri
                                => inbox'[i].version < inbox'[j].version
    BY <1>b DEF InboxNumbered, Numbered
  <2> QED  BY <1>a DEF Inv, InboxNumbered
<1>2. ASSUME NEW k \in Handlers, handler'[k] # Idle, handler'[k] = handler[k]
      PROVE  /\ handler'[k].version <= editor[handler'[k].uri].version
             /\ \A i \in 1..Len(inbox') :
                   Numbered(inbox'[i]) /\ inbox'[i].uri = handler'[k].uri
                       => handler'[k].version < inbox'[i].version
  BY <1>2, <1>a DEF Inv, ChecksNumbered
<1>3. ASSUME Store(h, m)
      PROVE  /\ handler'[h].version <= editor[handler'[h].uri].version
             /\ \A i \in 1..Len(inbox') :
                   Numbered(inbox'[i]) /\ inbox'[i].uri = handler'[h].uri
                       => handler'[h].version < inbox'[i].version
  <2>1. handler'[h].version = m.version /\ handler'[h].uri = m.uri
    BY <1>3 DEF Store, TypeOK
  <2>2. Numbered(m)
    BY <1>3 DEF Store, Numbered
  <2> QED  BY <2>1, <2>2, <1>a DEF Inv, InboxNumbered, m
<1>4. ASSUME NEW k \in Handlers
      PROVE  handler'[k] = handler[k] \/ (k = h /\ Store(h, m))
  BY <1>b DEF Store, Ignore, did_close, TypeOK
<1>5. ChecksNumbered'
  <2> SUFFICES ASSUME NEW k \in Handlers, handler'[k] # Idle
               PROVE  /\ handler'[k].version <= editor[handler'[k].uri].version
                      /\ \A i \in 1..Len(inbox') :
                            Numbered(inbox'[i]) /\ inbox'[i].uri = handler'[k].uri
                                => handler'[k].version < inbox'[i].version
    BY <1>b DEF ChecksNumbered, Numbered
  <2>1. CASE handler'[k] = handler[k]
    BY <2>1, <1>2
  <2>2. CASE k = h /\ Store(h, m)
    BY <2>2, <1>3
  <2> QED  BY <2>1, <2>2, <1>4
<1> QED  BY <1>1, <1>5

LEMMA ReceiveVersions ==
    ASSUME TypeOK, Inv, NEW h \in Handlers, Receive(h)
    PROVE  VersionTellsText' /\ AnswerComing'
<1> DEFINE m == inbox[1]
<1>a. 1 \in 1..Len(inbox) /\ m \in Message /\ m.uri \in Uris
  BY ReceiveInbox, InboxMembers
<1>b. handler[h] = Idle /\ (Store(h, m) \/ Ignore(m) \/ did_close(m))
  BY ReceiveInbox DEF Receive
<1>c. \A k \in Handlers : handler[k] # Idle /\ Numbered(m) /\ m.uri = handler[k].uri
        => handler[k].version < m.version
  BY <1>a DEF Inv, ChecksNumbered
<1>d. \A k \in Handlers : handler[k] # Idle
        => handler[k].uri \in Uris /\ handler[k].version \in Nat
  BY CheckMembers
<1> HIDE DEF m
<1>1. CASE Store(h, m)
  <2> DEFINE d == [source |-> m.text, version |-> m.version]
             c == [uri |-> m.uri, version |-> m.version, source |-> m.text]
  <2>1. /\ \A u \in Uris : documents'[u] = IF u = m.uri THEN d ELSE documents[u]
        /\ \A k \in Handlers : handler'[k] = IF k = h THEN c ELSE handler[k]
        /\ shown' = shown /\ Numbered(m)
    BY <1>1 DEF Store, TypeOK, Numbered
  <2>2. d # Nothing /\ c.uri # Nothing
    <3>1. m.text \in Texts /\ m.version \in Versions
      BY <1>1, <1>a DEF Store, Message
    <3>2. d \in Document
      BY <3>1 DEF Document
    <3> QED  BY <3>2, <1>a, LspAssumption
  <2>3. VersionTellsText'
    <3> SUFFICES ASSUME NEW k \in Handlers, handler'[k] # Idle,
                        documents'[handler'[k].uri] # Nothing,
                        documents'[handler'[k].uri].version = handler'[k].version
                 PROVE  documents'[handler'[k].uri].source = handler'[k].source
      BY DEF VersionTellsText, Current
    <3>1. CASE k = h
      BY <3>1, <2>1, <1>a
    <3>2. CASE k # h /\ handler[k].uri = m.uri
      BY <3>2, <2>1, <1>a, <1>c, <1>d DEF Current
    <3>3. CASE k # h /\ handler[k].uri # m.uri
      BY <3>3, <2>1, <1>d DEF Current, Inv, VersionTellsText
    <3> QED  BY <3>1, <3>2, <3>3
  <2>4. AnswerComing'
    <3> SUFFICES ASSUME NEW u \in Uris
                 PROVE  IF documents'[u] = Nothing
                        THEN shown'[u] = Nothing
                        ELSE \/ shown'[u] = Diagnose(documents'[u].source)
                             \/ \E k \in Handlers :
                                   /\ handler'[k] # Idle /\ handler'[k].uri = u
                                   /\ handler'[k].version = documents'[u].version
      BY DEF AnswerComing, Diagnose
    <3>1. CASE u = m.uri
      <4>1. handler'[h] = c /\ documents'[u] = d /\ c # Idle
        BY <3>1, <2>1, <2>2 DEF Idle
      <4>2. c.uri = u /\ c.version = d.version
        BY <3>1
      <4> HIDE DEF c, d
      <4> QED  BY <4>1, <4>2, <2>2
    <3>2. CASE u # m.uri
      <4>1. documents'[u] = documents[u] /\ shown'[u] = shown[u]
        BY <3>2, <2>1
      <4>2. ASSUME NEW k \in Handlers, handler[k] # Idle PROVE handler'[k] = handler[k]
        BY <4>2, <2>1, <1>b
      <4> QED  BY <4>1, <4>2 DEF Inv, AnswerComing
    <3> QED  BY <3>1, <3>2
  <2> QED  BY <2>3, <2>4
<1>2. CASE Ignore(m)
  BY <1>2 DEF Ignore, Inv, VersionTellsText, AnswerComing, Current
<1>3. CASE did_close(m)
  <2>1. /\ \A u \in Uris : documents'[u] = IF u = m.uri THEN Nothing ELSE documents[u]
        /\ \A u \in Uris : shown'[u] = IF u = m.uri THEN Nothing ELSE shown[u]
        /\ handler' = handler
    BY <1>3 DEF did_close, Publish, TypeOK
  <2>2. VersionTellsText'
    BY <2>1, <1>d DEF Inv, VersionTellsText, Current
  <2>3. AnswerComing'
    BY <2>1 DEF Inv, AnswerComing
  <2> QED  BY <2>2, <2>3
<1> QED  BY <1>1, <1>2, <1>3, <1>b

LEMMA ReceiveMirror ==
    ASSUME TypeOK, Inv, NEW h \in Handlers, Receive(h)
    PROVE  EditorMirrored'
<1> DEFINE m == inbox[1]  n == Len(inbox)
<1>a. /\ 1 \in 1..n /\ m \in Message /\ m.uri \in Uris
      /\ n \in Nat /\ Len(inbox') = n - 1
      /\ \A i \in 1..(n-1) : inbox'[i] = inbox[i + 1]
  BY ReceiveInbox, InboxMembers
<1>b. UNCHANGED editor /\ (Store(h, m) \/ Ignore(m) \/ did_close(m))
  BY ReceiveInbox DEF Receive
<1>i. \A i \in 1..n : i = 1 \/ \E k \in 1..(n-1) : i = k + 1
  BY <1>a
<1>r. \A i \in 1..(n-1) : i + 1 \in 1..n
  BY <1>a
<1> HIDE DEF m, n
<1>1. ASSUME NEW u \in Uris
      PROVE  StoredText(u)' = IF Sets(m, u) THEN After(m) ELSE StoredText(u)
  <2>1. CASE Store(h, m)
    <3> DEFINE d == [source |-> m.text, version |-> m.version]
    <3>1. /\ \A w \in Uris : documents'[w] = IF w = m.uri THEN d ELSE documents[w]
          /\ m.kind # "close" /\ m.text # Nothing
      BY <2>1 DEF Store, TypeOK
    <3>2. d.source = m.text /\ d # Nothing
      <4>1. m.text \in Texts /\ m.version \in Versions
        BY <2>1, <1>a DEF Store, Message
      <4>2. d \in Document
        BY <4>1 DEF Document
      <4> QED  BY <4>2, LspAssumption
    <3> QED  BY <3>1, <3>2 DEF StoredText, Sets, After
  <2>2. CASE Ignore(m)
    BY <2>2 DEF Ignore, StoredText, Sets
  <2>3. CASE did_close(m)
    <3>1. \A w \in Uris : documents'[w] = IF w = m.uri THEN Nothing ELSE documents[w]
      BY <2>3 DEF did_close, TypeOK
    <3> QED  BY <3>1, <2>3 DEF did_close, StoredText, Sets, After
  <2> QED  BY <2>1, <2>2, <2>3, <1>b
<1>2. \A u \in Uris : EditorText(u)' = EditorText(u)
  BY <1>b DEF EditorText
<1> SUFFICES ASSUME NEW u \in Uris
             PROVE  /\ \A i \in 1..(n-1) :
                          Sets(inbox'[i], u) /\ (\A j \in (i+1)..(n-1) : ~Sets(inbox'[j], u))
                             => After(inbox'[i]) = EditorText(u)'
                    /\ (\A i \in 1..(n-1) : ~Sets(inbox'[i], u))
                             => StoredText(u)' = EditorText(u)'
  BY <1>a DEF EditorMirrored, LastToSet, Sets, After
<1>3. ASSUME NEW i \in 1..(n-1), Sets(inbox'[i], u),
             \A j \in (i+1)..(n-1) : ~Sets(inbox'[j], u)
      PROVE  After(inbox'[i]) = EditorText(u)'
  <2>1. ASSUME NEW j \in (i+2)..n PROVE ~Sets(inbox[j], u)
    <3>1. j - 1 \in (i+1)..(n-1) /\ j - 1 \in 1..(n-1) /\ j = (j - 1) + 1
      BY <1>a
    <3>2. inbox'[j - 1] = inbox[j]
      BY <3>1, <1>a
    <3> QED  BY <3>1, <3>2, <1>3
  <2>2. (i + 1) + 1 = i + 2 /\ i + 1 \in 1..n /\ inbox'[i] = inbox[i + 1]
    BY <1>a, <1>r
  <2>3. LastToSet(u, i + 1)
    BY <2>1, <2>2, <1>3 DEF LastToSet, n
  <2> QED  BY <2>2, <2>3, <1>2 DEF Inv, EditorMirrored, n
<1>4. ASSUME \A i \in 1..(n-1) : ~Sets(inbox'[i], u)
      PROVE  StoredText(u)' = EditorText(u)'
  <2>1. \A k \in 1..(n-1) : ~Sets(inbox[k + 1], u)
    BY <1>4, <1>a
  <2>2. CASE Sets(m, u)
    <3>1. \A j \in (1+1)..n : ~Sets(inbox[j], u)
      <4> SUFFICES ASSUME NEW j \in (1+1)..n PROVE ~Sets(inbox[j], u)
        OBVIOUS
      <4>1. j - 1 \in 1..(n-1) /\ j = (j - 1) + 1
        BY <1>a
      <4> QED  BY <4>1, <2>1
    <3>2. LastToSet(u, 1)
      BY <2>2, <3>1 DEF LastToSet, m, n
    <3>3. After(m) = EditorText(u)
      BY <3>2, <1>a DEF Inv, EditorMirrored, m, n
    <3> QED  BY <2>2, <3>3, <1>1, <1>2
  <2>3. CASE ~Sets(m, u)
    <3>1. \A i \in 1..n : ~Sets(inbox[i], u)
      BY <2>1, <2>3, <1>i DEF m
    <3> QED  BY <3>1, <2>3, <1>1, <1>2 DEF Inv, EditorMirrored, n
  <2> QED  BY <2>2, <2>3
<1> QED  BY <1>3, <1>4

LEMMA ConcludeInv ==
    ASSUME TypeOK, Inv, NEW h \in Handlers, Conclude(h)
    PROVE  Inv'
<1> DEFINE c == handler[h]
<1>a. c # Idle /\ c.uri \in Uris
  BY CheckMembers DEF Conclude
<1>b. /\ \A k \in Handlers : handler'[k] = IF k = h THEN Idle ELSE handler[k]
      /\ UNCHANGED <<editor, inbox, documents>>
      /\ Current(c) => \A u \in Uris :
            shown'[u] = IF u = c.uri THEN Diagnose(c.source) ELSE shown[u]
      /\ ~Current(c) => shown' = shown
  BY DEF Conclude, Publish, TypeOK
<1>c. Current(c) => documents[c.uri] # Nothing /\ documents[c.uri].source = c.source
  BY <1>a DEF Inv, VersionTellsText, Current
<1>d. \A k \in Handlers : handler[k] # Idle /\ handler[k].uri \in Uris
        /\ documents[handler[k].uri] # Nothing
        /\ documents[handler[k].uri].version = handler[k].version => Current(handler[k])
  BY DEF Current
<1>1. InboxNumbered' /\ EditorMirrored' /\ OpenHasText'
  BY <1>b DEF Inv, InboxNumbered, EditorMirrored, OpenHasText, LastToSet, Sets, After,
              EditorText, StoredText, Numbered
<1>2. ChecksNumbered'
  BY <1>b DEF Inv, ChecksNumbered, Numbered
<1>3. VersionTellsText'
  BY <1>b DEF Inv, VersionTellsText, Current
<1> HIDE DEF c
<1>4. AnswerComing'
  <2> SUFFICES ASSUME NEW u \in Uris
               PROVE  IF documents[u] = Nothing
                      THEN shown'[u] = Nothing
                      ELSE \/ shown'[u] = Diagnose(documents[u].source)
                           \/ \E k \in Handlers : /\ handler'[k] # Idle /\ handler'[k].uri = u
                                                  /\ handler'[k].version = documents[u].version
    BY <1>b DEF AnswerComing, Diagnose
  <2>1. CASE documents[u] = Nothing
    BY <2>1, <1>b, <1>c DEF Inv, AnswerComing
  <2>2. CASE documents[u] # Nothing /\ u = c.uri /\ Current(c)
    BY <2>2, <1>b, <1>c
  <2>3. CASE documents[u] # Nothing /\ ~(u = c.uri /\ Current(c))
    <3>1. shown'[u] = shown[u]
      BY <2>3, <1>b
    <3>2. ASSUME NEW k \in Handlers, handler[k] # Idle, handler[k].uri = u,
                 handler[k].version = documents[u].version
          PROVE  k # h
      BY <3>2, <2>3, <1>d DEF c
    <3> QED  BY <3>1, <3>2, <2>3, <1>b DEF Inv, AnswerComing
  <2> QED  BY <2>1, <2>2, <2>3
<1> QED  BY <1>1, <1>2, <1>3, <1>4 DEF Inv

-----------------------------------------------------------------------------
(* The theorems.                                                            *)

LEMMA InvInit == Init => Inv
<1> SUFFICES ASSUME Init PROVE Inv
  OBVIOUS
<1>1. Len(inbox) = 0 /\ \A i \in 1..Len(inbox) : FALSE
  BY DEF Init
<1>2. \A h \in Handlers : handler[h] = Idle
  BY DEF Init
<1>3. EditorMirrored /\ OpenHasText /\ AnswerComing
  BY <1>1 DEF Init, EditorMirrored, OpenHasText, AnswerComing, StoredText, EditorText
<1> QED  BY <1>1, <1>2, <1>3 DEF Inv, InboxNumbered, ChecksNumbered, VersionTellsText

LEMMA InvNext ==
    ASSUME ~Restart
    PROVE  TypeOK /\ Inv /\ [Next]_vars => Inv'
<1> SUFFICES ASSUME TypeOK, Inv, [Next]_vars PROVE Inv'
  OBVIOUS
<1>1. ASSUME NEW u \in Uris,
             \/ \E t \in Texts : Opens(u, t) \/ Changes(u, t)
             \/ ChangesNothing(u)
             \/ Closes(u)
      PROVE  Inv'
  <2>1. PICK e, m : EditorStep(u, e, m) /\ Growing(u, e, m)
    BY <1>1, EditorSteps DEF Inv
  <2> QED  BY <2>1, EditorInv
<1>2. ASSUME NEW h \in Handlers, Receive(h) PROVE Inv'
  <2>1. OpenHasText'
    BY <1>2, ReceiveTypes DEF Inv
  <2> QED  BY <1>2, <2>1, ReceiveNumbers, ReceiveVersions, ReceiveMirror DEF Inv
<1>3. ASSUME NEW h \in Handlers, Conclude(h) PROVE Inv'
  BY <1>3, ConcludeInv
<1>4. CASE UNCHANGED vars
  BY <1>4 DEF vars, Inv, InboxNumbered, ChecksNumbered, VersionTellsText, EditorMirrored,
              OpenHasText, AnswerComing, Numbered, Current, Sets, After, LastToSet,
              EditorText, StoredText
<1> QED  BY <1>1, <1>2, <1>3, <1>4 DEF Next

\* The state of editor and server always has its type, whatever the editor
\* numbers its versions by.
THEOREM LspTypeCorrect == Spec => []TypeOK
<1>1. Spec => [](TypeOK /\ OpenHasText)
  BY TypeInit, TypeNext, PTL DEF Spec
<1> QED  BY <1>1, PTL

\* With versions handed out once, what analyze_and_publish publishes is about
\* the text that is stored at that moment.
THEOREM OnlyStoredTextPublished ==
    ASSUME ~Restart
    PROVE  Spec => PublishesCurrent
<1> DEFINE Step == \A h \in Handlers :
               LET c == handler[h] IN
               c # Idle /\ handler'[h] = Idle /\ shown' # shown
                 => documents[c.uri] # Nothing /\ documents[c.uri].source = c.source
<1>1. TypeOK /\ Inv /\ [Next]_vars => [Step]_vars
  <2> SUFFICES ASSUME TypeOK, Inv, Next,
                      NEW h \in Handlers, handler[h] # Idle, handler'[h] = Idle, shown' # shown
               PROVE  /\ documents[handler[h].uri] # Nothing
                      /\ documents[handler[h].uri].source = handler[h].source
    BY DEF vars
  <2>1. ASSUME NEW u \in Uris,
               \/ \E t \in Texts : Opens(u, t) \/ Changes(u, t)
               \/ ChangesNothing(u)
               \/ Closes(u)
        PROVE  FALSE
    BY <2>1 DEF Opens, Changes, ChangesNothing, Closes
  <2>2. ASSUME NEW k \in Handlers, Receive(k) PROVE FALSE
    BY <2>2 DEF Receive, Store, Ignore, did_close, TypeOK
  <2>3. ASSUME NEW k \in Handlers, Conclude(k)
        PROVE  k = h /\ Current(handler[h])
    <3>1. k = h
      BY <2>3 DEF Conclude, TypeOK
    <3> QED  BY <2>3, <3>1 DEF Conclude
  <2> QED  BY <2>1, <2>2, <2>3 DEF Next, Inv, VersionTellsText, Current
<1>2. Spec => [](TypeOK /\ Inv)
  <2>1. TypeOK /\ Inv /\ [Next]_vars => TypeOK' /\ Inv'
    BY TypeNext, InvNext DEF Inv
  <2>2. Init => TypeOK /\ Inv
    BY TypeInit, InvInit
  <2> QED  BY <2>1, <2>2, PTL DEF Spec
<1> HIDE DEF Step
<1>3. Spec => [][Step]_vars
  BY <1>1, <1>2, PTL DEF Spec
<1> QED  BY <1>3 DEF PublishesCurrent, Step

\* With versions handed out once, the last answer shown for a document is the
\* one for its text, and none for a closed document.
THEOREM LastAnswerStands ==
    ASSUME ~Restart
    PROVE  Spec => []QuietIsCurrent
<1>1. TypeOK /\ Inv => QuietIsCurrent
  <2> SUFFICES ASSUME TypeOK, Inv, NEW u \in Uris, Quiet(u)
               PROVE  shown[u] = IF editor[u].open THEN Diagnose(editor[u].text) ELSE Nothing
    BY DEF QuietIsCurrent
  <2>1. StoredText(u) = EditorText(u)
    BY DEF Quiet, Sets, Inv, EditorMirrored
  <2>2. IF documents[u] = Nothing THEN shown[u] = Nothing
                                  ELSE shown[u] = Diagnose(documents[u].source)
    BY DEF Quiet, Inv, AnswerComing
  <2>3. editor[u].open => editor[u].text # Nothing
    BY LspAssumption DEF Inv, OpenHasText
  <2>4. documents[u] # Nothing => documents[u].source # Nothing
    BY LspAssumption DEF TypeOK, Document
  <2> QED  BY <2>1, <2>2, <2>3, <2>4 DEF StoredText, EditorText
<1>2. TypeOK /\ Inv /\ [Next]_vars => TypeOK' /\ Inv'
  BY TypeNext, InvNext DEF Inv
<1>3. Init => TypeOK /\ Inv
  BY TypeInit, InvInit
<1> QED  BY <1>1, <1>2, <1>3, PTL DEF Spec

=============================================================================
