# Nestor Asset Manager: a TLA+ verification project

This directory models the parts of Nestor Asset Manager where ordering,
concurrency, failure or arithmetic decide whether the system is right: TLA+
modules translated from the Python and TypeScript sources, TLC configurations
that check them on small instances, and theorems checked by TLAPS.

## 1. The system

Three processes and a database.

| Part | Code | State it keeps | Operations |
|---|---|---|---|
| **API** (`nam_api`, FastAPI) | `src/api` | none beyond the request; one SQLAlchemy session per request | setup / profile, indices, transactions, positions, analyses, recommendations, WebSocket chat proxy |
| **Agent service** (`nam_agentic`, FastAPI + APScheduler) | `src/agentic` | the Boursorama client's request history, the agent's checkpoints, the workspace files | `/events`, `/chat/stream`, scheduled market runs and news ingests, the agent's tools |
| **Front** (Next.js) | `src/front` | React state of the chat, the onboarding wizard and the holding form | calls to the API, one WebSocket |
| **Database** (`nam_db`, PostgreSQL) | `src/packages/db` | `users`, `indices`, `transactions`, `positions`, `analyses`, `recommendations`, `news_items` | read and written by both services, READ COMMITTED |

How they interact: the front calls the API over HTTP and holds one WebSocket;
the API proxies chat to the agent service as a newline-delimited stream and
notifies it of profile changes with one HTTP call that may be lost; the
scheduler inside the agent service raises market and news events by direct
callback; both services share the database and nothing else.

### Components, hard behaviours and what makes each correct

1. **Position calculator** (`position_calculator.py`). Pure: one pass over the
   ordered transactions of an index keeps quantity and average cost. Hard:
   backdating, oversells in the middle of the ledger, a holding emptied and
   opened again, fees, rounding. Correct when the holding is the net flow, the
   average stays inside the costs of the open purchases, and rounding happens
   only in the stored columns.
2. **Portfolio ledger and positions** (`transaction_service.py`,
   `position_service.py`). Each request changes one `transactions` row and
   rewrites the positions of the indices it affects in one database
   transaction, with no lock on the (user, index) pair. Hard: overlapping
   requests, stale identity-map copies, column-wise updates, unique-key and row
   lock waits, deadlocks, failed flushes, crashes. Correct when a position is
   the replay of its ledger, no oversold ledger is committed, and every request
   ends.
3. **Recommendation lifecycle** (`recommendation_service.py`). PENDING to
   APPLIED or REJECTED, once. Hard: two decisions at the same time.
4. **Profile and setup** (`user_service.py`, `routers/profile.py`,
   `agentic_client.py`, and in the front `useProfileGuard.ts`,
   `OnboardingWizard.tsx`). One user; a guard on every page; a wizard of three
   steps that sends one POST; an event after each change. Hard: two setups at
   once, a lost answer, events lost. Correct when a second profile cannot come
   from anything but an overlap, and only whole forms are sent.
5. **Index catalogue** (`index_service.py`, `create_index.py`,
   `AddHoldingModal.tsx`). Unique ISINs from two processes; a form whose second
   request can fail. Correct when one creator is told so and a purchase entered
   once is recorded once.
6. **Chat** (`ChatView.tsx`, `websocket/chat.py`, `routers/chat.py`,
   `runner.py`). Three processes and two streams. Correct when each question
   gets exactly one terminal event and no event of one question reaches the
   next.
7. **Agent events** (`event_handler.py`, `routers/events.py`). Background tasks
   that run concurrently on one workspace. Correct when an accepted profile
   event leaves the user's goals in it.
8. **Boursorama client** (`client.py`, `urls.py`, `page_reader.py`). One request
   at a time, a random pause, two rolling budgets; addresses that several
   functions build, classify and store. Correct when no window holds more
   charged requests than its cap, whoever waits gets its turn or an error, and
   the functions on addresses agree.
9. **News ingestion** (`ingest.py`, `news_item_store.py`). Upserts by url with
   an embedding computed between the read and the write. Correct when an
   article keeps its body and a vector is of the text of its row.
10. **Ticker and symbol resolution** (`resolver.py`, `lookup.py`,
    `update_index_*.py`). A lookup racing a manual override; a choice among
    listings. Correct when a symbol the user imposed stays, and no symbol
    depends on the order of an answer.
11. **Market prices** (`market_price.py`). Two pool connections per lookup.
    Correct when every call ends and gives them back.
12. **Market scheduler** (`scheduler.py`). Cron times computed from sessions,
    threads named by local dates. Correct when a thread is one market's phase
    of one day, a run at a time.
13. **Database migrations** (`packages/db/alembic`). Five revisions over tables
    with rows, up and down, by two deployments at once. Correct when every run
    reaches its target and leaves the schema of a fresh upgrade.

`PROJECT.json` lists every component with its status, and under `hazards` each
place in this code that is hard to test, with the properties that cover it.

## 2. Plan

In order of importance; each line is one module with its MC module, runs and,
where it pays, proofs.

1. `PositionCalculator`, `LedgerView`, `Ledger` with `PortfolioBook`,
   `LedgerRefinement` and `LedgerOverlap`: **done**.
2. `Recommendations`: concurrent PATCHes; what the last committed decision
   still guarantees: **done**. They run as a part of `MCServices`.
3. `ChatStream`, `AgentStream`, `AgentRunner` with `AgentRefinement`, and
   `ChatProxy`, `ChatView`, `Chat`: front, proxy and agent joined by two
   streams; no cross-talk, whole answers, liveness: **done**.
4. `BoursoramaClient`, `SymbolResolution`, `NewsStore`, composed as
   `AgentTools` since resolution and ingestion wait for the same client and the
   same connection pool; the window theorem of the client: **done**.
5. `ProfileSetup` with `AgentEvents`, and `Catalogue`: setup race, lost events,
   two-step creation of a holding, and their theorems: **done**. They run with
   `MCAgentTools` as parts of `MCServices`.
6. `MarketSchedule`, `SchemaMigrations`, `SymbolLookup`, `BoursoramaUrls`: cron
   arithmetic, revisions, choices and addresses: **done**. They run with
   `MCPositionCalculator` as parts of `MCAlgorithms`.

Theorems: every invariant that a run checks and every action property but one
is stated by a theorem: **done** (section 5 says which properties TLC alone
checks, and why).

## 3. Modules

| Module | Models |
|---|---|
| `PositionCalculator` | `PositionCalculator.replay` and the columns a snapshot is stored in |
| `LedgerView` | the `transactions` table as a function from id to row, the ordered select, request bodies and patches |
| `Ledger` | create / update / delete with `recalculate_for_user_index`, statement by statement, for any number of concurrent requests |
| `PortfolioBook` | abstract specification: what the portfolio API promises, with no sessions or steps |
| `LedgerRefinement` | the mapping under which one handler at a time implements `PortfolioBook` |
| `LedgerOverlap` | `Ledger` with a history variable: which indices were disturbed during each request |
| `Recommendations` | `create_recommendation` and the PATCH handlers: check, flush, commit |
| `MCRecommendations` | a small instance, with the history of what each PATCH said and of who was in flight at a first decision |
| `ChatStream` | the response bodies of `POST /chat/stream`: lines in flight, how a body ends, breaks or is left |
| `AgentStream` | abstract specification: what one such request yields, whatever the agent does |
| `AgentRunner` | `AgentRunner.stream_events` and the route around it: graph rounds, checkpoints, nudge, choice of the response, pieces, done or error |
| `AgentRefinement` | the mapping under which `AgentRunner` implements `AgentStream` |
| `ChatProxy` | the `/ws/chat` coroutines of the API, on top of `AgentStream` |
| `ChatView` | the handlers of `ChatView.tsx` in one tab, on top of `ChatProxy` |
| `Chat` | the three processes together, fairness, liveness |
| `MCAgentRunner`, `MCChat` | small instances, with the history of overlapping runs, of late breaks and of answers written |
| `BoursoramaClient` | the HTTP client: semaphore, random pause, the two rolling budgets, what is charged and what is not |
| `SymbolResolution` | the tools that resolve, use or correct provider symbols, on top of the client: rows, connections of the pool, failures |
| `NewsStore` | the writers of `news_items`, on top of both: fetch, read, embed, insert, commit |
| `AgentTools` | their composition, with its fairness; what every call gives back |
| `ProfileSetup` | POST /setup and PUT /profile statement by statement; the guard and the wizard of the browser tabs |
| `AgentEvents` | the handling of profile, market and ingest events, on top of `ProfileSetup` |
| `Catalogue` | creations of one ISIN by both services, and the holding modal |
| `MarketSchedule` | the cron jobs, what fires or is missed, and the thread of each run |
| `SchemaMigrations` | the statements of the five revisions, both ways, and runs of alembic |
| `SymbolLookup` | from the identity in a Yahoo tool call to one symbol |
| `BoursoramaUrls` | addresses: built, normalised, classified, listed, read and stored |
| `MCAgentTools`, `MCServices` | six workloads of the tools, with the history of imposed symbols and crossed writers; the parts of the services side by side |
| `MCAlgorithms` | the parts with a small state side by side |
| `MCLedger`, `MCLedgerOverlap`, `MCPositionCalculator` | small instances, and the reference definitions of the calculator |
| `CalculatorProofs`, `LedgerProofs` | theorems about the replay of one index, and about the ledger: types, empty positions, one handler at a time against `PortfolioBook`, overlapping handlers |
| `AlgorithmsProofs` | theorems about the calculator's references, the schedule, the choice of a symbol and the addresses |
| `RecommendationsProofs`, `ServicesProofs`, `AgentToolsProofs` | theorems about decisions, about profiles, wizard, catalogue and modal, and about the client, the tools and the news writers |
| `AgentProofs`, `ChatProofs` | theorems about `AgentRunner`, its refinement of `AgentStream` and its threads, and about the three processes of the chat |

### How `Ledger` corresponds to the code

`ledger` and `positions` are the committed tables. `req[h]` is the session of
the request that handler `h` serves; it exists from the first statement to the
moment the session is closed. Its fields are the Python coroutine's position
(`pc`), the request's own transaction as the identity map holds it (`obj`), the
fields assigned to it (`patch`), the uncommitted row versions (`delta`,
`writes`), the indices still to recalculate (`todo`), and the current
recalculation (`index`, `snap`, `loaded`).

| Action | Code |
|---|---|
| `Create` | user and index checks, `session.add`, `flush` (`transaction_service.py` 32-45); one step because no one else can see the row |
| `Update`, `Delete` | `_get_user_transaction` and the assignments, up to the flush |
| `Flush` | `session.flush()`: waits for a row lock, fails with `StaleDataError` on a vanished row, or on the check constraint |
| `SelectLedger` | the ordered select and the replay; `InsufficientQuantityError` rolls back |
| `SelectPosition` | the select of the position |
| `Autoflush` | the pending position change flushed by the next recalculation's select |
| `Commit` | flush and COMMIT |
| `Refresh` | `session.refresh`, which can fail although the request is committed |
| `DeadlockVictim` | PostgreSQL ends one statement of a minimal wait cycle |
| `Crash` | the worker or its connection is lost between two statements |

Points that matter for faithfulness:

* **READ COMMITTED.** A select sees what is committed when it runs, plus the
  session's own changes (`Overlay`). No statement of the code takes a lock
  beyond those of its writes.
* **Identity map.** Rows of `transactions` that a select returns keep the
  attributes of an object the session already holds. The map is weak: the only
  object kept alive is the request's own transaction, hence `mem` in `Selected`.
* **Column-wise updates.** SQLAlchemy emits only attributes that differ from
  the loaded values; a racing commit's other columns survive (`NetChanges`,
  `NewVersion`).
* **Row counts.** An `UPDATE` that matches no row raises; a `DELETE` that
  matches no row only warns. Unique violations, check violations and deadlocks
  are not caught by the service: HTTP 500 and a rollback (`"error"`).
* **`{old_index_id, transaction.index_id}`** is iterated in an arbitrary order:
  `SelectLedger` picks any index of `todo`.
* **`created_at`** is the start of the inserting database transaction, so it is
  the request's number; ties with equal dates are broken by it.
* **Quantities** are counted in sub-units of the column's last decimal
  (`Grain`), so requests can carry more decimals than the column keeps. Prices
  and fees are taken with no more decimals than their columns. The average is an
  exact quotient where Python uses 28 digits.

Not modelled: list endpoints (reads), NUMERIC overflow, more than one user, the
user row's check (it never disappears), foreign keys (indices are never
deleted), and connection-pool waits.

### How `Recommendations` corresponds to the code

`open[h]` is the session of a PATCH between its select and its commit. `Check`
is `update_status` up to the flush: one select, the three checks, and the
assignments, with no await between them (a refused PATCH changes nothing, so
404, 409 and 422 are its guard). `Flush` is the UPDATE: it waits for the row
lock of another session, then writes the columns that differ from the row as
loaded over the row as it is by then. `CommitDecision` is the router's. `Create`
is the agent's tool, whose insert and commit nobody can see in parts.

### How the chat modules correspond to the code

The chat is checked in two halves that meet at `AgentStream`. The agent half is
`AgentRunner`, shown to implement `AgentStream` (by TLC on an instance and by a
theorem for all of them). The user half is `Chat`, in which `ChatProxy` and
`ChatView` run against `AgentStream` itself, so that graphs, checkpoints and
texts need not be multiplied with sockets and bubbles.

A question is a number; so is the request that carries it, its response body
and its bubble, and a thread bears the number of the request that created it.
The number in an event (`of`) is for the properties only: neither the proxy nor
the front has one, and no action looks at it.

| Action | Code |
|---|---|
| `AgentRunner`: `Start` | `chat_stream` up to `astream`, which loads the latest checkpoint of the thread |
| `ToolRound`, `GraphEnds` | supersteps of the graph; each saves the messages this run knows, so two runs on one thread save over each other |
| `GraphFails`, `NudgeFails` | `astream` raises: an error event, or the fallback text when it was the second graph run |
| `Nudge` | the pick found only a plan, or nothing, after tools had run: one more graph run |
| `Respond`, `FallBack` | `_pick_final_assistant_text` and the `except` around it |
| `Write`, `Finish`, `End` | the pieces, done, the end of the body |
| `Cancel` | the client has gone: Starlette cancels the generator at its next await |
| `ChatProxy`: `ReceiveText`, `Call`, `CallFails` | a message is received; the POST is answered 200, or is not (never sent, refused, or its answer lost: then the run goes on for nobody) |
| `Relay`, `RelayStatus` | one line of `aiter_lines`; a failed `send_text` leaves the stream |
| `StreamEnds`, `StreamBreaks` | the end of the loop with the `saw_terminal` check; `except httpx.HTTPError` |
| `ChatView`: `Mount` | the effect's cleanup and its next run: one socket per mount |
| `SendMessage`, `SendRefused` | `sendMessage` |
| `OnMessage` | `onmessage`, by the type of the event |
| `SocketOnError`, `SocketOnClose`, `SyncRef` | the two handlers, and the effect that copies `isStreaming` into its ref |

A body may end whole (`"eof"`), break with an error (`"broken"`), or be cut by an
intermediary so that it looks whole (`"cut"`). A connection may drop at any
moment with what was in flight, and a process that dies is seen by the others
as those failures. A text is what the code tells apart: an answer or a plan
(`_looks_like_plan_preamble`, `_looks_like_internal_draft`), and its length.

Not modelled: status events (the activity line), messages that fail validation,
and the send button's `wsReady`, which no handler reads (the `onclose` of an
unmounted socket clears it even after the next socket has opened, which React's
second mount in development mode can show).

### How the agent's tools correspond to the code

A coroutine of nam-agentic is a caller. What it does to the Boursorama client is
conjoined with what it does itself: `SearchAnswered` is `Answered` of the client
and the tool's next step.

| Action | Code |
|---|---|
| `Ask`, `Admit`, `Limited` | `_throttled_request` up to the semaphore; `_check_budget`, which prunes the deque, then the pause; `BoursoramaRateLimitError` |
| `Answered`, `Broken`, `Cancelled` | an answer of any status is recorded; an exception records nothing, so failed requests are retried without being counted; `async with` lets go |
| `List`, `Price`, `Load`, `YahooLookup`, `Quote` | `get_portfolio_positions`, `get_price`, the resolvers and `YfinanceClient` |
| `Hit`, `Miss`, `Raise` | a symbol is written over whatever the row holds by then; the next query; any other exception |
| `Get`, `Impose`, `Refresh` | `update_index_boursorama`, `update_index_yahoo_symbol` |
| `PoolTimeout`, `NoConnection` | SQLAlchemy's `QueuePool` gives up; nobody catches it |
| `Read`, `Embed`, `Insert`, `Commit` | `NewsItemStore.upsert` and the commit of its caller: a deep read upserts one article, an ingest all entries of a feed in page order |
| `FetchFails`, `Fetched` | a feed that fails is skipped, an article that fails ends the call |
| `DeadlockVictim` | two transactions that insert two urls in opposite orders |

`sent` holds every recorded time; `dropped` is how many of them the deque has
lost, so the property can look further back than the code. A writer stands for
the values it writes: of a row, `title` names the writer whose headline fields
it has, `body` the one whose text it has, and `vector` the text embedded. A
deep read has no summary and no run, and overwrites those of the feed with NULL:
the model has this as `title` being replaced as a whole.

### How the services correspond to the code

| Action | Code |
|---|---|
| `SetupCounts`, `SetupInserts`, `Commits` | `setup`: the count, the insert (which waits for an uncommitted row with its id, and fails on a committed one, caught by nobody), the router's commit |
| `UpdateReads`, `UpdateFlushes` | `update_profile`: `_get_singleton` (no user and several users are one 404), the UPDATE; an explicit null beside another field passes `at_least_one_field` and is refused by the column: HTTP 500 |
| `Emits`, `RequestLost` | `emit_agent_event` once after the commit, its failure logged; a crash or a lost answer |
| `ProfileLoads`, `Guard` | the guard's query (any failure is taken for "no profile" and leads to the wizard) and its redirects |
| `Fills`, `GoNext`, `GoBack`, `Submit`, `Submitted` | the wizard: `validateStep` on the way forward, the last step only in `submit` |
| `HandleProfile`, `HandleMarket`, `HandleIngest` | `handle` and `_ensure_workspace` |
| `Invoke`, `GetUserContext`, `RunEnds` | `invoke` with the thread id of the context, the tool bound to the agent's own user, the end of a run |
| `Selects`, `Inserts`, `CommitsIndex` | `create_index` (the agent's look-up first; the API inserts at once) |
| `SubmitsNew`, `IndexAnswered`, `Buys`, `Bought`, `AnswerLost` | `AddHoldingModal`: the index is created, and only then price, quantity and date are looked at |

### How the algorithms correspond to the code

`MarketSchedule` counts in units of ten minutes, since every job falls on one;
the jobs of `IngestJobs` and `MarketJobs` are computed as `scheduler.py`
computes them. With the sessions of `markets.py` the mid-session ingest falls
on 11:20, where `openspec/specs/agent-runtime/spec.md` and
`boursorama-news-ingestion/spec.md` say 13:20 (`IngestsAsDocumented`). `SchemaMigrations` has one
operator per kind of statement, and the revisions as sequences of them.
`SymbolLookup` keeps of a listing what the rank and the filter look at, so ties
are real; `sorted` and the comparison of the first two are the set of best
places (`Best`), a tie being a set of several; a tie is an error for its own query, after which
`resolve` goes on to the next (`QueriesOf`). `BoursoramaUrls` keeps an address as host, segments, final slash and
query. `_hit_from_path` is only claimed to return a ticker for quote pages: of a
company's news page (`/cours/actualites/T/`) it makes the ticker `actualites`.

## 4. Runs

| Run | Question | Bounds |
|---|---|---|
| `calculator` | does the replay agree with closed-form references? and the small algorithms with theirs? | 4 transactions, 3 quantities, 2 prices, 2 fees: enough to empty and reopen a holding and to oversell in the middle; 2 runs of alembic between any two revisions, rows in 3 tables; 2 days, local time 0, 1 or 2 hours behind Paris, runs of at most 130 minutes; 3 listings over 4 queries; pages of 2 links |
| `ledger_serial` | served one at a time, does the portfolio keep its promise? | 1 handler, 4 requests, 2 indices, backdating, fees, moves, refusals, crashes anywhere |
| `ledger_overlap` | what survives when requests overlap? | 2 handlers, 3 requests, 2 indices: a race needs a row, and two requests over it |
| `ledger_waits` | does every request end? | 2 handlers, 4 requests: two purchases, then two moves between the same two indices, each recalculating them in the order of its own Python set: the least that deadlocks |
| `ledger_lost_update` | (violation) positions against the ledger with nothing in flight | 2 handlers, 3 requests |
| `recommendation_final` | (violation) a decision that stands | 2 handlers, 2 PATCHes |
| `chat_agent` | does every response stream keep the promise of `AgentStream`, and what does a run lose or show of its thread? | 2 questions, on one thread or two; answers of 1 or 2 pieces and a plan of 2; 1 line in flight. A body is abandoned by being left: one that breaks differs only in the lines still read from it |
| `chat` | does each question get its own, whole answer or an error? | 3 questions, 2 connections, 1 piece, 1 line in flight: one question on an old connection, one broken, one answered; whole, broken and cut bodies |
| `chat_final_answer` | (violation) the answer that was just written | the bounds of `chat_agent` |
| `thread_lost` | (violation) what a run saves on a thread stays in its checkpoint | the bounds of `chat_agent` |
| `services` | do budgets, rows and connections survive concurrent tools and ingests, profiles and holdings concurrent requests? what does a decision still mean when PATCHes overlap? | 6 workloads of up to 4 callers; windows of 2 and 4 ticks, caps 2 and 3, pauses of 1 or 2, 3 idle ticks: both caps are met, and either can be the one that refuses; a pool of 2; 2 indices, 2 urls; 1 tab and 2 other clients; 1 modal and 2 tool calls; 3 handlers, 3 PATCHes of 1 recommendation, 2 comments: two rivals can wait for the first one's lock |
| `profile_goals` | (violation) an event that is handled leaves USER_GOALS.md | the bounds of `services` |

Every configuration says `CHECK_DEADLOCK FALSE`: after `MaxRequests` requests
(`MaxRows` transactions of the calculator, `MaxPatches` PATCHes, the calls of a
workload, `LastDay` days) the model stops on purpose.

`MCServices` and `MCAlgorithms` hold several parts that share no variable. A
behaviour explores one part: the others keep their initial values, since running
two side by side would add no behaviour to either. The workloads of
`MCAgentTools` are chosen so that what one leaves out cannot disturb the
others in it: readers of budgets, writers of one symbol, holders of connections
and writers of news.

Four more configurations give counterexamples that complete what the runs say:

* `MCLedgerFine.cfg`: an empty position row left by quantities finer than their
  column.
* `MCAlgorithmsDivergences.cfg`, whose three invariants are all violated: a Yahoo
  call with two identity keys is accepted (`OneIdentityKey`), a tie among the
  listings does not end the lookup (`AmbiguousLookupFails`), and the news ingests
  are not at the documented times (`IngestsAsDocumented`).
* `MCChatTokens.cfg`: a token arrives that no bubble shows (`TokensDisplayed`).
* `MCServicesVectors.cfg`: an article with the vector of a headline
  (`EveryVectorMatches`).

What they show. One at a time, the service implements `PortfolioBook`: every
commit changes one row of the book and leaves exactly the replayed holdings,
crashes included, and no request dies on a constraint. With overlap, neither
"positions match the ledger" nor "no oversold ledger" holds (a finding). What
does hold is what `LedgerOverlap` states: a commit that nobody disturbed on an
index leaves that index right even if it was wrong before, and a right position
is only ever broken by a commit that was disturbed on it. The set of disturbed
indices has to include every index when the request's own row was changed by
another: a stale amount can be carried to an index nobody else works on.
"Right" includes "not oversold": `Matches` asks of the replay that it succeeds.

The chat. A question always ends, in an answer or an error; a bubble only holds
pieces of its own answer, in order; the tab never takes a part for the whole
while its connection is open; and the conversation keeps its thread. There is
one exception, which the history variable `late` marks: if a body breaks between
its terminal event and its end, the proxy's `except` sends a second terminal
event, and the front takes it for the end of whatever it asked meanwhile (that
bubble is removed, its tokens have none, and with a further question they can
land in the wrong bubble). `BubblesArePrefixes`, `SettledShown` and
`ThreadSticks` claim nothing after such a break; liveness holds with it. The
break, and nothing else on this instance, also violates `TokensDisplayed`: every
token that arrives is displayed. On the agent's side two runs on one thread lose
each other's messages (`contested`; a finding of `thread_lost`); alone on its
thread a run loses nothing and never shows a plan when it wrote an answer, but
the response can be an older, longer answer of the conversation (a finding).

A decision on a recommendation is not final when two PATCHes read PENDING before
either commits (a finding). What remains: only those rivals can overwrite it,
a row is never reopened, its status and time belong to one committed PATCH with
the comment that PATCH gave, and a PATCH that gave none can be left with the
comment of the decision it overwrote.

The tools. No window of the client ever holds more charged requests than its
cap, although the budget is checked before the pause and charged after the
answer: the semaphore is held in between. Requests that raise are not charged,
so the caps say nothing of them. Every call ends and gives back semaphore and
connections, also when positions take all connections of the pool and wait for
one more each (the pool's timeout ends that). A symbol the user imposed is only
replaced by a lookup that had begun before. An article keeps its body whatever
headline follows; its vector is of the row's text unless its last writer was
crossed by another between its SELECT and its INSERT (`crossed`). A headline
that reads the row before a deep read stores the article, and writes after it,
leaves the article with the vector of a headline (`EveryVectorMatches`), where
`openspec/specs/agentic-news-tools/spec.md` 114-116 has the vector recomputed from
the stored text.

The services. A second profile comes from nothing but an overlap of setups: with
`DEFAULT_USER_ID` the second insert fails on the key, without it two users stay
and every request is refused from then on. The wizard never sends an invalid
step. The holding modal records a purchase once, and once more only if the
answer to the first was lost. A profile event, however, writes nothing: its run
has no thread id and ends before its first node (a finding).

The algorithms. Runs of one thread start at least two hours apart; a thread is
one day also when the process keeps UTC. Upgrades and downgrades reach the
schema of a fresh upgrade from anywhere, over rows and against another run, but
for the `vector` extension, which stays; at head the columns are those of the
models. A symbol never depends on the order of the listings, and one more listing
either leaves it as it was, becomes it, or ties with the best, which is worth
what an empty answer is. A headline and the deep read of its article meet in one
row, except for relative links with a query.

Where the code and its documents disagree. Beside the findings, the models follow
the code on these points, against `openspec/specs/`:

* `agentic-yahoo-tools/spec.md` 37-39: a call with both `isin` and `yahoo_symbol`
  must fail validation. `normalize_identity_fields` keeps the first of
  `yahoo_symbol`, `index_id` and `isin` and drops the others before
  `exactly_one_key` counts them, so that every such call is accepted
  (`OneIdentityKey` is violated). `agentic_tests/tools/test_yahoo.py` 281-286
  tests the rule with any `Exception`, which is not necessarily the validation's.
* `yahoo-market-provider/spec.md` 52-55: a tie raises `YahooSymbolNotFoundError`
  and nothing is stored. It does so for its own query; `resolve` catches it, looks
  up the name, and stores what that finds (`AmbiguousLookupFails` is violated).
* `agent-runtime/spec.md` 167 and `boursorama-news-ingestion/spec.md` 52: the
  mid-session ingest at 13:20. The code computes 11:20 (`IngestsAsDocumented`).
* `agentic-news-tools/spec.md` 114-116, the vector of an article under a new
  headline: see above (`EveryVectorMatches`).

**Fairness.** `FairSpec` of `Ledger` and `PatchFairness` of `Recommendations`
assume weak fairness of each handler's next statement (the event loop runs a coroutine whose await is over, and PostgreSQL answers a
statement that is not waiting) and of deadlock detection (PostgreSQL runs it
after `deadlock_timeout`). New requests and crashes are not assumed.
`FairChatSpec` assumes that the system does not stop while the agent, a
coroutine of the proxy or the browser's event handlers can go on (`Work`): the
event loops run what is ready, and a graph run ends because `recursion_limit`
bounds its rounds. That every model call returns is part of the assumption: the
proxy's client has `timeout=None`, so nothing else would end such a question.
Asking, mounting and failures are not assumed. `ToolsFairness` assumes that time
passes while somebody sleeps and that each caller's next step is taken: the event
loop runs what is ready, and every wait on the network, the pool or a row lock
ends somehow (the HTTP client and the pool have timeouts, PostgreSQL detects
deadlocks). That Ollama and Yahoo answer or fail is part of the assumption: the
code sets no timeout for the one and never uses the one it has for the other
(`yahoo_request_timeout_sec`). Cancellations are not assumed.

## 5. Proofs

TLC checks the small instances of section 4; the theorems hold for all values of
the constants under the assumptions below. Where an invariant is not inductive,
the strengthening is an operator of the proof module (named in the tables), with
one lemma per action or per kind of action.

`RECURSIVE` is not used: the replay and the parsers' loop are recursive functions.
Induction over them goes through `NatSetInduction`, an induction rule over sets
of naturals derived from the well-foundedness of `<`, because the library's rule
takes an operator.

### The calculator and the ledger (`CalculatorProofs`, `AlgorithmsProofs`, `LedgerProofs`)

| Theorem | States | Argument |
|---|---|---|
| `ReplayType` | a replay of well-formed transactions of any length is a well-formed snapshot | a run of the loop exists for every length (`RunExists`); each step preserves `Snapshots` (`BookType`): the quantity never goes negative, the divisor never becomes 0 |
| `ReplayHoldsNet` | `HoldingIsNetFlow` | `Numbered` says what the input sequence can be. By induction on the prefix, the run is alive exactly while no prefix sells more than it bought, and holds the difference; a sum over a set of positions grows by its last member |
| `AverageStaysWithin` | `AverageWithinOpenCosts` | the same induction, with the two bounds of the average since the holding was last empty: a purchase mixes two fractions, and the mixture lies between them; a sale leaves the average; an emptied holding starts again |
| `PurchasesCommute` | `AdjacentBuysCommute` | two purchases in either order give the same sums; from there the two runs stay alike, transaction by transaction |
| `StoredIsExact` | `StoredColumnsAreClose`, when every quantity fits its column | sums and differences of multiples of `Grain` are multiples, so the first column loses nothing; half-up rounding is within half a unit |
| `TypeCorrect` | `TypeOK` of `Ledger` | inductive as it stands. The select's result is well-formed because a rank among finitely many rows is a bijection (`PlaceIsTaken`); one lemma per action |
| `NoEmptyPositionHolds` | `NoEmptyPosition`, with `Grain = 1` | `HoldingInv`: uncommitted versions hold too, since a column-wise update keeps either the loaded row's quantity or the replayed one. `StepWrites` and `StepPositions` say what a step may do to versions and table |
| `SerialPositionsMatch` | `PositionsMatchLedger`, with `Grain = 1` and one handler | not inductive: a commit publishes what the session prepared. `SerialInv` adds, for each statement the session can be at, that its view of the ledger and of the positions agree on every index it need not write any more (`InStep`, `Flushed`), that its copy of the row is the row, and that its snapshot is the replay of its view. Key facts: views that agree on the rows of an index replay to the same (`ReplaySame`), and a column that is not written already holds the rounded value (`UnchangedColumn`) |
| `SerialNoServerError` | `NoServerError`, likewise | from the same invariant: the row loaded is still there (`WriteSucceeds`), and no wait cycle has one member |
| `SerialImplementsBook` | `ImplementsBook`, likewise: the refinement of `PortfolioBook` | `BookInv` adds that what a session is about to commit is a change the book allows (`Offered`). Every step but a commit leaves ledger and positions alone (`OnlyCommits`), which is a stutter; a commit is `Record`, `Revise` or `Strike` of the book, by the operation of its session |
| `RecalculationRepairs`, `RacesHurtNobodyElse` | `UndisturbedCommitRepairs`, `OnlyDisturbedCommitsDamage`, with `Grain = 1` and any number of handlers | `OverlapInv`: between a session and an index on which nobody disturbed it, everything is as it would be alone (`Undisturbed`, `Settled`), whatever state races have left that index in; a commit of somebody else either disturbs the session on an index or leaves the rows and the position of that index as they were |

### Decisions, profiles, catalogue (`RecommendationsProofs`, `ServicesProofs`)

| Theorem | States | Argument |
|---|---|---|
| `RecommendationTypes`, `ResolutionLasts` | `TypeOK`, `NeverReopened` | `SessionInv`: an open session has loaded a PENDING row and resolves it (`SessionsResolve`), and one uncommitted version of a row exists at a time (`OneWriter`). The row that a session flushed is still the one its version was made from, because the lock kept the others out |
| `DecisionsAreWhole`, `RivalsOnly` | `DecisionIsWhole`, `OnlyRivalsOverwrite` | `HInv` adds what the history variables say of the sessions still open (`HistoryInv`): a session of a row that is resolved was in flight when it was |
| `ProfilesOverlap` | `ExtraProfilesOnlyFromOverlap` | `ProfileInv`: a request that will write a user found it there or brings its own id, and once there is a user, one that brings its own had counted none before (`Counted`) |
| `SubmissionsWhole` | `SubmissionsAreComplete` | `WizardInv`: every step before the one shown is valid, because an edit touches only the step shown and going on validates it |
| `ModalBuysOnce`, `IndexCreatedOnce` | `BoughtOnce`, `CreatedOnce` | `CatalogueInv`: a recorded purchase is being answered, or its answer was lost, or it has closed the modal for good (`Accounted`); one uncommitted row at a time, and none beside a committed one (`OneInsert`) |

### The agent's tools (`AgentToolsProofs`)

| Theorem | States | Argument |
|---|---|---|
| `ClientKeepsCaps`, `ToolsKeepCaps` | `RollingCaps`, for the client alone and for any tools and ingests over it | not inductive: an answer is charged without looking at the budget. `ClientInv` adds that who pauses holds the semaphore (`Alone`) and that there is room for it in both windows (`Room`): `BudgetLeavesRoom` gets this from the counts of `_check_budget`, through the order of the recorded times and the cardinality of an interval; then only the clock moves, which makes more room. Entries the deque has lost are out of both windows because the minute is no longer than the hour. `ToolsStepOfClient`: whatever the tools do is a step of the client |
| `ToolsTyped` | `ToolsTypeOK` | `ServiceInv` ties what a caller holds (connections, semaphore, row versions) to where it is, caller by caller; an action moves one caller, so the others' part is untouched |
| `BodiesKept` | `BodiesSurvive` | in `ServiceInv`, a version never lacks a body that is stored (`LocksOk`): true when it is written, and kept because its row lock lets nobody else commit that row |
| `VectorsMatch` | `VectorsMatchUnlessCrossed` | `VectorsInv`: the same is said of the versions not yet committed (`VersionsMatch`), and of what a writer that embeds has read |
| `LookupsReplace` | `OnlyEarlierLookupsReplace` | `LookupsInv`: a lookup of a row whose symbol is imposed is recorded in `inflight` (`LookupsRecorded`), because one that begins later finds the symbol and makes no lookup |

These theorems start from any `Workload`: any callers, each with one of the
tools' calls, an ingest or a deep read as the code issues them, in place of the
six workloads that the run enumerates.

### The chat (`AgentProofs`, `ChatProofs`)

| Theorem | States | Argument |
|---|---|---|
| `RunnerTypes` | `TypeOK` of `AgentRunner` | `RunnerInv` adds what a run's phase says of its body, its thread and its pieces (`Consistent`). Most actions replace one run: `OneRunChanges` says when that keeps the invariant, `QuietStep` and `SpeakingStep` specialise it to steps that leave the body alone and steps that yield |
| `RunnerImplementsStream` | `ImplementsStream` | under `RunnerInv`, each action maps to one action of `AgentStream` or to a stutter (`NextIsNext`, one lemma per case). A run that nobody reads counts as over, which makes its later steps stutters; done follows at least one piece because no text is empty (`ResponseSize`) |
| `AnswersCompete`, `ThreadsKeepTheirTexts` | `OwnAnswerCompetes`, `ThreadGrows` | `ThreadInv`: on a thread that was never contested the checkpoint is what its one run knows (`Knows`), so what the run saves extends it, and the response was picked among all its texts |
| `ChatTypes` | `TypeOK` of `Chat` | `TypeInv`, one part per process |
| `BubblesPrefix`, `SettledIsShown`, `ThreadStays` | `BubblesArePrefixes`, `SettledShown`, `ThreadSticks` | `ChatInv`: unless a late break has occurred, the bubble, the messages on the socket and the lines of the body, end to end, are the pieces of one answer in order and its end (`Follows`). A question is posted, passed on, being answered, relayed, or cut off with its connection (`UnderWay`), and nothing is left on a connection the tab believes ready (`Quiet`) |

### The algorithms (`AlgorithmsProofs`)

| Theorem | States | Argument |
|---|---|---|
| `RunsKeepApart` | `ThreadsKeepApart` | `ScheduleInv`: a run belongs to a day up to today, its thread is named by that day, and a job of today that has run is past and no longer due. The rest is arithmetic on the computed job times; for every offset up to two hours, no date turns between two jobs of one market and phase |
| `SymbolByMerit` | `SymbolNotByChance` | swapping two rows moves the filtered, preferred and best places along (`Moves`), so a single best row stays the single best (`PickAlike`). A rank is a strict order (`BetterIsOrder`): a row more leaves the best rows best, or is the best, or ties with them (`BestStay`, `OneMoreRow`). `ResolveByHits` states `Resolve` by what each query yields; the queries of a call differ (`QueriesDiffer`), so another answer to one of them changes one yield (`OneAnswerChanges`), and a tie yields nothing, like an empty answer (`TieIsNothing`) |
| `AddressesStayTogether` | `AddressesAgree` | the entries of a page are distinct and each is the absolute form of a listed link (induction over the parsers' loop); then by cases on the form of an address. The pages of a ticker are computed |

### Assumptions

All assumptions on constants are named, and the runs evaluate them:

* `ScaleAssumption`, `RequestAssumption`, `AmountsAssumption`: scales are
  positive, and bodies and patches are what the schemas validate (`gt=0`, `ge=0`).
* `RecommendationAssumption`, `CatalogueAssumption`, `ProfileAssumption`: model
  values that must differ do, and bounds are naturals.
* `ClientAssumption`, whose `Minute <= Hour` the window theorem needs and the 60
  and 3600 of the code satisfy; `ResolutionAssumption` and `NewsAssumption`: the
  pool has a connection, the portfolio has a line, an entry page has an entry, and
  symbols found and imposed are told apart.
* `ChatStreamAssumption`, `AgentRunnerAssumption`, `ChatProxyAssumption`:
  questions and connections are numbered from 1, texts have a size.
* `ScheduleAssumption`: the process keeps the time of Paris or that of a container
  (UTC), which is behind it by two hours at most.
* `LookupAssumption`, `UrlsAssumption`: calls, rows and addresses have the fields
  the code reads; a listing has a symbol and is ranked by numbers.

Three hypotheses stand in theorems instead. `Grain = 1`: quantities carry no more
decimals than NUMERIC(18,8); without it `NoEmptyPosition` is false, as
`MCLedgerFine.cfg` shows, and `PositionsMatchLedger` has no reason to hold, since
a finer quantity is replayed unrounded. `Fits(q)` for every quantity says the same
of the calculator's references. `OneHandler`: the serial theorems are for requests
that take turns; for overlapping ones their properties are false, as
`ledger_lost_update` shows, and the two overlap theorems say what is left.

### Model-checked only

* Liveness: `RequestsEnd`, `PatchesEnd`, `AnswersEnd`, `CallsEnd`. They rest on
  fairness and on when actions are enabled, which the prover does not handle.
* `RunsReachTheirTarget`: its content is the computation of thirty fixed paths of
  statements by a fold over concatenated sequences, which TLC evaluates, for each
  path, over every set of filled tables and every overlap of two runs; the prover
  cannot unfold a fold. More runs than two add nothing: a transaction is one
  step, and all that a run knows of the others is the revision it finds.
* The properties of the five runs that expect a violation: they are false.

## 6. Not modelled

Details that the models round off, in parts that are modelled:

* A transaction of alembic is one step: a run that fails on the DDL of a rival
  which itself rolls back later is not shown.
* An error event carries `str(exc)`, which some exceptions leave empty: the page
  would then show no banner, where `OnError` of `ChatView` always shows one. The
  question ends in both.
* Redirects are followed inside one `get` and charged once, and a request that
  raises is not charged: the models do as the code does.
* A fee that is absent is 0, and the average cost is an exact quotient.
* A lookup by a free query holds a connection of the pool in the model, which
  the code does not take: the model's pool is fuller than the code's.
* The answers of the `chat` run have one piece; that longer ones arrive in order
  is the theorem `BubblesPrefix`, and `chat_agent` has answers of two.

Parts that are left out:

* **Analyses**: single inserts and reads, with no state relation beyond foreign
  keys.
* **The agent graph, its prompts and the registry of tools**: wiring of agent
  libraries; what the model does is a choice in `AgentRunner` and `AgentEvents`.
* **The dashboard and the generated client**: presentation, and code written by
  a generator.
* **HTML and calendar parsers, `page_formatter`, `yahoo_helpers`**: what they
  take out of pages and data frames is text and number conversion, with no state;
  their failures are choices in the models.
* **List endpoints, semantic search, the figures of the positions tool**: reads.
* **Daylight saving changes and market holidays** in the schedule: the code
  ignores both. Column lengths and enum labels in the migrations.
