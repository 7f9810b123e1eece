------------------------------- MODULE NewsStore -------------------------------
(***************************************************************************)
(* The writers of news_items: NewsIngestService (one database transaction  *)
(* per feed, its entries as title and summary) and get_data_from_url (one  *)
(* article with its body), both through NewsItemStore.upsert, which reads  *)
(* the stored body, awaits an embedding of the text it then believes the   *)
(* row to have, and sends INSERT .. ON CONFLICT DO UPDATE.                 *)
(*                                                                         *)
(* A writer stands for what it writes: `title` is the writer whose title,  *)
(* summary, category, fetched_at and ingest_run_id the row has (they are   *)
(* always overwritten together), `body` the one whose content_markdown it  *)
(* has (kept unless given, like the ticker and published_at), and `vector` *)
(* the text that was embedded.                                             *)
(***************************************************************************)
EXTENDS SymbolResolution

CONSTANTS Urls,   \* source_url values
          Pages   \* what a feed's page can list: sequences of distinct urls

(* Rows: whose title, body and vector, and the text of the vector.         *)
NewsRow == [title : Callers, body : Callers \cup {None}, vector : Callers \X (Callers \cup {None})]

ASSUME NewsAssumption ==
  /\ \A page \in Pages : page # <<>> /\ page \in Seq(Urls)
  /\ None \notin Callers /\ None \notin NewsRow

VARIABLES news,   \* committed rows of news_items, by source_url
          writer  \* caller -> its ingest or deep read

newsVars == <<news, writer>>

(* ingest_session over `feeds` feeds; get_data_from_url of one article.    *)
Ingest(feeds) == [op |-> "ingest", at |-> "fetch", feeds |-> feeds, todo |-> <<>>,
                  row |-> None, vector |-> None, writes |-> [u \in {} |-> None]]

DeepRead(u, persist) ==
  [op |-> "deep", at |-> "fetch", feeds |-> IF persist THEN 1 ELSE 0, todo |-> <<u>>,
   row |-> None, vector |-> None, writes |-> [u1 \in {} |-> None]]

Overlaid(writes, rows) ==
  [u \in DOMAIN writes \cup DOMAIN rows |-> IF u \in DOMAIN writes THEN writes[u] ELSE rows[u]]

(* The row of a url as the writer's transaction sees it, NULL if none.     *)
View(w, u) ==
  LET rows == Overlaid(w.writes, news) IN IF u \in DOMAIN rows THEN rows[u] ELSE None

Writes(c, w, sessions) ==
  /\ writer' = [writer EXCEPT ![c] = w]
  /\ held' = {h \in held : h[1] # c} \cup ({c} \X sessions)
  /\ UNCHANGED <<indices, call>>

Writing(c, place) == c \in DOMAIN writer /\ writer[c].at = place

(* Mutant: the session of a failed writer stays open. *)
AbortsLeaking(c) ==
  Writes(c, [writer[c] EXCEPT !.at = "error", !.writes = [u \in {} |-> None]], {1})

(* An exception leaves `async with session_factory()`: rolled back.        *)
Aborts(c) ==
  Writes(c, [writer[c] EXCEPT !.at = "error", !.writes = [u \in {} |-> None]], {})

-----------------------------------------------------------------------------
FetchAsks(c) == Writing(c, "fetch") /\ Ask(c) /\ UNCHANGED <<resolutionVars, newsVars>>

FetchAdmitted(c) == Writing(c, "fetch") /\ Admit(c) /\ UNCHANGED <<resolutionVars, newsVars>>

(* A page or a feed that cannot be read or parsed: the ingest goes on with *)
(* the next feed, the deep read fails.                                     *)
Skips(c) ==
  LET w == writer[c]
  IN  IF w.op = "deep" THEN Aborts(c)
      ELSE Writes(c, [w EXCEPT !.feeds = @ - 1, !.at = IF w.feeds = 1 THEN "done" ELSE @], {})

FetchFails(c) ==
  Writing(c, "fetch") /\ (Limited(c) \/ Broken(c) \/ Answered(c)) /\ Skips(c) /\ UNCHANGED news

(* The page is read: entries of the feed, or the article (which a model    *)
(* formats first; an index page, or persist = False, stores nothing).      *)
Fetched(c) ==
  LET w == writer[c]
  IN  /\ Writing(c, "fetch") /\ Answered(c)
      /\ \/ /\ w.op = "ingest"
            /\ \E page \in Pages : Writes(c, [w EXCEPT !.at = "read", !.todo = page], {})
         \/ /\ w.op = "deep"
            /\ Writes(c, [w EXCEPT !.at = IF w.feeds = 0 THEN "done" ELSE "read"], {})
      /\ UNCHANGED news

(* upsert: SELECT the row, the first time with a connection of the pool.   *)
Read(c) ==
  /\ Writing(c, "read") /\ (HasFree \/ <<c, 1>> \in held)
  /\ Writes(c, [writer[c] EXCEPT !.at = "embed", !.row = View(writer[c], Head(writer[c].todo))], {1})
  /\ UNCHANGED <<news, clientVars>>

Body(c, row) == IF writer[c].op = "deep" THEN c ELSE IF row = None THEN None ELSE row.body

(* Mutant: the stored body is not part of the text of a new headline. *)
TextShort(c, row) == <<c, IF writer[c].op = "deep" THEN c ELSE None>>

(* The text to embed: the new title and summary, the given or stored body. *)
Text(c, row) == <<c, Body(c, row)>>

(* The embedding arrives, or Ollama fails, which nobody catches.           *)
Embed(c) ==
  /\ Writing(c, "embed")
  /\ \/ Writes(c, [writer[c] EXCEPT !.at = "insert", !.vector = Text(c, writer[c].row)], {1})
     \/ Aborts(c)
  /\ UNCHANGED <<news, clientVars>>

(* Another open transaction has inserted or updated the row.               *)
WaitsFor(c, d) ==
  /\ Writing(c, "insert") /\ d \in DOMAIN writer \ {c}
  /\ Head(writer[c].todo) \in DOMAIN writer[d].writes

(* Mutant: the stored body is overwritten by a headline that has none. *)
StoredOver(c, row) ==
  [title |-> c, body |-> IF writer[c].op = "deep" THEN c ELSE None, vector |-> writer[c].vector]

(* INSERT, or the SET of ON CONFLICT over the row as it is now.            *)
Stored(c, row) == [title |-> c, body |-> Body(c, row), vector |-> writer[c].vector]

Insert(c) ==
  LET w == writer[c]
      u == Head(w.todo)
  IN  /\ Writing(c, "insert") /\ \A d \in DOMAIN writer : ~WaitsFor(c, d)
      /\ Writes(c, [w EXCEPT !.at = IF Len(w.todo) = 1 THEN "commit" ELSE "read", !.todo = Tail(@),
                             !.writes = Overlaid([v \in {u} |-> Stored(c, View(w, u))], @)], {1})
      /\ UNCHANGED <<news, clientVars>>

(* session.commit(); the ingest then takes its next feed.                  *)
Commit(c) ==
  LET w == writer[c]
  IN  /\ Writing(c, "commit")
      /\ news' = Overlaid(w.writes, news)
      /\ Writes(c, [w EXCEPT !.at = IF w.feeds = 1 THEN "done" ELSE "fetch", !.feeds = @ - 1,
                             !.writes = [u \in {} |-> None]], {})
      /\ UNCHANGED clientVars

(* PostgreSQL ends one statement of a cycle of waiting writers.            *)
Deadlocked(c) ==
  \E S \in SUBSET DOMAIN writer :
    c \in S /\ \A d \in S : \E e \in S : WaitsFor(d, e)

DeadlockVictim(c) ==
  c \in DOMAIN writer /\ Deadlocked(c) /\ Aborts(c) /\ UNCHANGED <<news, clientVars>>

NoConnection(c) ==
  /\ Writing(c, "read") /\ ~HasFree /\ <<c, 1>> \notin held
  /\ Aborts(c) /\ UNCHANGED <<news, clientVars>>

(* The chat request behind a deep read is abandoned.                       *)
Abandon(c) ==
  /\ c \in DOMAIN writer /\ writer[c].op = "deep" /\ writer[c].at \notin {"done", "error"}
  /\ Aborts(c) /\ Cancelled(c) /\ UNCHANGED news

WriterStep(c) ==
  \/ FetchAsks(c) \/ FetchAdmitted(c) \/ FetchFails(c) \/ Fetched(c)
  \/ Read(c) \/ Embed(c) \/ Insert(c) \/ Commit(c) \/ DeadlockVictim(c) \/ NoConnection(c)

-----------------------------------------------------------------------------
(* A stored article keeps its text: a headline that arrives later for the  *)
(* same url, in whatever order the two are processed, replaces the title   *)
(* and not the body.                                                       *)
BodiesSurvive ==
  [][\A u \in DOMAIN news :
       /\ u \in DOMAIN news'
       /\ news[u].body # None => news'[u].body # None]_newsVars
=============================================================================
