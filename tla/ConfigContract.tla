--------------------------- MODULE ConfigContract ---------------------------
(***************************************************************************)
(* What the configuration server promises (web_config.rs:1-11): a store    *)
(* that serves each client's requests one by one, each at a single moment  *)
(* between the question and the answer, and at most once.                  *)
(*                                                                         *)
(* A client may give up or be cut off; what it had asked for then happens  *)
(* later or never, but before anything it asks for afterwards.  Besides    *)
(* the requests only the panel's theme keys and the favourites a start     *)
(* finds missing change the tables.                                        *)
(***************************************************************************)
EXTENDS ConfigTables

CONSTANTS Client, Request, NoRequest, NoAnswer

VARIABLES
  tables,
  asked, answers,  \* per client: the request under way, and its answer
  loose            \* per client: requests given up that may still happen

vars == <<tables, asked, answers, loose>>

Init ==
  /\ tables \in Tables
  /\ asked = [c \in Client |-> NoRequest] /\ answers = [c \in Client |-> NoAnswer]
  /\ loose = [c \in Client |-> <<>>]

Ask(c) ==
  /\ asked[c] = NoRequest
  /\ \E r \in Request : asked' = [asked EXCEPT ![c] = r]
  /\ UNCHANGED <<tables, answers, loose>>

Serve(c) ==
  /\ asked[c] # NoRequest /\ answers[c] = NoAnswer /\ loose[c] = <<>>
  /\ \E ok \in BOOLEAN :
       /\ tables' = Applied(tables, asked[c], ok)
       /\ answers' = [answers EXCEPT ![c] = Answered(tables, asked[c], ok)]
  /\ UNCHANGED <<asked, loose>>

Return(c) ==
  /\ answers[c] # NoAnswer
  /\ asked' = [asked EXCEPT ![c] = NoRequest]
  /\ answers' = [answers EXCEPT ![c] = NoAnswer]
  /\ UNCHANGED <<tables, loose>>

GiveUp(c) ==
  /\ asked[c] # NoRequest
  /\ asked' = [asked EXCEPT ![c] = NoRequest]
  /\ answers' = [answers EXCEPT ![c] = NoAnswer]
  /\ \/ UNCHANGED loose
     \/ answers[c] = NoAnswer /\ loose' = [loose EXCEPT ![c] = Append(@, asked[c])]
  /\ UNCHANGED tables

ServeLoose(c) ==
  /\ loose[c] # <<>>
  /\ \E ok \in BOOLEAN : tables' = Applied(tables, Head(loose[c]), ok)
  /\ loose' = [loose EXCEPT ![c] = Tail(@)]
  /\ UNCHANGED <<asked, answers>>

\* The process ends, and with it every request under way.
Cut ==
  /\ asked' = [c \in Client |-> NoRequest] /\ answers' = [c \in Client |-> NoAnswer]
  /\ loose' = [c \in Client |-> <<>>]
  /\ UNCHANGED tables

\* The panel's theme, or the default favourites in an empty table.
Inside ==
  /\ \E u \in Table :
       /\ \/ u = "kv_config" /\ tables'[u]["theme_name"] = tables[u]["theme_name"]
          \/ u = "favorites" /\ tables[u] = Empty[u]
       /\ \A v \in Table \ {u} : tables'[v] = tables[v]
  /\ UNCHANGED <<asked, answers, loose>>

Next ==
  \/ \E c \in Client : Ask(c) \/ Serve(c) \/ Return(c) \/ GiveUp(c) \/ ServeLoose(c)
  \/ Inside \/ Cut

Spec == Init /\ [][Next]_vars
=============================================================================
