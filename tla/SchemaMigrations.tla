--------------------------- MODULE SchemaMigrations ---------------------------
(***************************************************************************)
(* The chain of Alembic revisions of packages/db, and runs of alembic that *)
(* may overlap.  A run reads the revision of the database, then executes   *)
(* the statements of every revision up to its target in one transaction,   *)
(* each revision ending with an UPDATE of alembic_version that must match  *)
(* the revision before it.  PostgreSQL's DDL is transactional and its locks*)
(* serialise runs that conflict: a transaction is one step here.           *)
(*                                                                         *)
(* A schema is types, tables, columns <<table, name, type, nullable>> (type*)
(* "" if it is no enum), keys <<child, parent>>, indexes <<name, table,    *)
(* columns>>.  Revisions are numbered along the chain, 0 being none.       *)
(***************************************************************************)
EXTENDS Integers, Sequences, FiniteSets

LOCAL INSTANCE SequencesExt

CONSTANTS Runs,    \* runs of alembic
          Filling  \* the tables whose rows are told apart from none

VARIABLES revision,  \* alembic_version
          schema,    \* committed schema
          filled,    \* tables that hold rows
          migration  \* run -> its progress

migrationVars == <<revision, schema, filled, migration>>

Empty == [types |-> {}, tables |-> {}, columns |-> {}, keys |-> {}, indexes |-> {}]

ColumnsOf(table, required, nullable, enums) ==
  {<<table, c, "", FALSE>> : c \in required} \cup {<<table, c, "", TRUE>> : c \in nullable}
  \cup {<<table, c, enums[c], FALSE>> : c \in DOMAIN enums}

NoEnum == [c \in {} |-> ""]

-----------------------------------------------------------------------------
(* Statements.  Enum types are created and dropped with checkfirst.        *)
Types(names) == [do |-> "create types", names |-> names]

DropTypes(names) == [do |-> "drop types", names |-> names]

Create(table, required, nullable, enums, parents) ==
  [do |-> "create table", name |-> table, columns |-> ColumnsOf(table, required, nullable, enums),
   parents |-> parents]

Drop(table) == [do |-> "drop table", name |-> table]

Index(name, table, columns) == [do |-> "create index", name |-> name, table |-> table, columns |-> columns]

DropIndex(name, checked) == [do |-> "drop index", name |-> name, checked |-> checked]

(* Mutant: a new column has no server default. *)
AddBare(table, required, nullable, enums, defaulted) ==
  [do |-> "add column", table |-> table, columns |-> ColumnsOf(table, required, nullable, enums),
   defaulted |-> FALSE]

(* defaulted: existing rows have a value for the new column.               *)
Add(table, required, nullable, enums, defaulted) ==
  [do |-> "add column", table |-> table, columns |-> ColumnsOf(table, required, nullable, enums),
   defaulted |-> defaulted]

DropColumn(table, column) == [do |-> "drop column", table |-> table, column |-> column]

EnumsOf(columns) == {c[3] : c \in columns} \ {""}

(* What PostgreSQL refuses, `rows` being the tables that hold rows.        *)
Refused(s, db, rows) ==
  \/ s.do = "drop types" /\ s.names \cap EnumsOf(db.columns) # {}
  \/ /\ s.do = "create table"
     /\ \/ s.name \in db.tables \/ ~(s.parents \subseteq db.tables)
        \/ ~(EnumsOf(s.columns) \subseteq db.types)
  \/ s.do = "drop table" /\ (s.name \notin db.tables \/ \E k \in db.keys : k[2] = s.name)
  \/ /\ s.do = "create index"
     /\ \/ \E i \in db.indexes : i[1] = s.name
        \/ \E c \in s.columns : ~ \E d \in db.columns : d[1] = s.table /\ d[2] = c
  \/ s.do = "drop index" /\ s.checked /\ ~ \E i \in db.indexes : i[1] = s.name
  \/ /\ s.do = "add column"
     /\ \/ s.table \notin db.tables \/ ~(EnumsOf(s.columns) \subseteq db.types)
        \/ \E c \in s.columns, d \in db.columns : c[1] = d[1] /\ c[2] = d[2]
        \/ s.table \in rows /\ ~s.defaulted /\ \E c \in s.columns : ~c[4]
  \/ s.do = "drop column" /\ ~ \E c \in db.columns : c[1] = s.table /\ c[2] = s.column

Effect(s, db) ==
  CASE s.do = "create types" -> [db EXCEPT !.types = @ \cup s.names]
    [] s.do = "drop types" -> [db EXCEPT !.types = @ \ s.names]
    [] s.do = "create table" ->
         [db EXCEPT !.tables = @ \cup {s.name}, !.columns = @ \cup s.columns,
                    !.keys = @ \cup ({s.name} \X s.parents)]
    [] s.do = "drop table" ->
         [db EXCEPT !.tables = @ \ {s.name}, !.columns = {c \in @ : c[1] # s.name},
                    !.keys = {k \in @ : k[1] # s.name}, !.indexes = {i \in @ : i[2] # s.name}]
    [] s.do = "create index" -> [db EXCEPT !.indexes = @ \cup {<<s.name, s.table, s.columns>>}]
    [] s.do = "drop index" -> [db EXCEPT !.indexes = {i \in @ : i[1] # s.name}]
    [] s.do = "add column" -> [db EXCEPT !.columns = @ \cup s.columns]
    [] s.do = "drop column" ->
         [db EXCEPT !.columns = {c \in @ : ~(c[1] = s.table /\ c[2] = s.column)},
                    !.indexes = {i \in @ : ~(i[2] = s.table /\ s.column \in i[3])}]

-----------------------------------------------------------------------------
(* The revisions, in the order of their down_revision.  The vector         *)
(* extension is created if it is not there and dropped by no downgrade.    *)
PortfolioCoreUp == <<
  Types({"vector", "strategy_enum", "transaction_type_enum"}),
  Create("users", {"id", "firstname", "date_of_birth", "goals", "created_at", "updated_at"}, {},
         [strategy |-> "strategy_enum"], {}),
  Create("indices", {"id", "name", "isin", "created_at"}, {}, NoEnum, {}),
  Create("transactions", {"id", "user_id", "index_id", "price", "quantity", "date", "created_at"},
         {"fees"}, [type |-> "transaction_type_enum"], {"users", "indices"}),
  Index("ix_transactions_user_id", "transactions", {"user_id"}),
  Index("ix_transactions_index_id", "transactions", {"index_id"}),
  Index("ix_transactions_user_id_date", "transactions", {"user_id", "date"}),
  Index("ix_transactions_user_id_index_id", "transactions", {"user_id", "index_id"}),
  Create("positions", {"id", "user_id", "index_id", "quantity", "average_cost", "last_update"}, {},
         NoEnum, {"users", "indices"}),
  Index("ix_positions_user_id", "positions", {"user_id"}) >>

PortfolioCoreDown == <<
  DropIndex("ix_positions_user_id", TRUE), Drop("positions"),
  DropIndex("ix_transactions_user_id_index_id", TRUE),
  DropIndex("ix_transactions_user_id_date", TRUE),
  DropIndex("ix_transactions_index_id", TRUE), DropIndex("ix_transactions_user_id", TRUE),
  Drop("transactions"), Drop("indices"), Drop("users"),
  DropTypes({"transaction_type_enum"}), DropTypes({"strategy_enum"}) >>

AnalysisEnums ==
  {"agent_enum", "recommendation_type_enum", "recommendation_status_enum", "analysis_trigger_enum"}

AnalysisRecommendationUp == <<
  Types(AnalysisEnums),
  Create("analyses", {"id", "user_id", "title", "content", "content_embedding", "created_at"},
         {"index_id"}, [agent |-> "agent_enum", trigger |-> "analysis_trigger_enum"],
         {"users", "indices"}),
  Index("ix_analyses_user_id_created_at", "analyses", {"user_id", "created_at"}),
  Index("ix_analyses_user_id_index_id", "analyses", {"user_id", "index_id"}),
  Index("ix_analyses_content_embedding_hnsw", "analyses", {"content_embedding"}),
  Create("recommendations", {"id", "user_id", "content", "created_at"}, {"user_comment", "resolved_at"},
         [agent |-> "agent_enum", type |-> "recommendation_type_enum",
          status |-> "recommendation_status_enum"], {"users"}),
  Index("ix_recommendations_user_id_status", "recommendations", {"user_id", "status"}),
  Create("recommendation_analyses", {"recommendation_id", "analysis_id"}, {}, NoEnum,
         {"recommendations", "analyses"}) >>

AnalysisRecommendationDown == <<
  Drop("recommendation_analyses"), DropIndex("ix_recommendations_user_id_status", TRUE),
  Drop("recommendations"), DropIndex("ix_analyses_content_embedding_hnsw", FALSE),
  DropIndex("ix_analyses_user_id_index_id", TRUE), DropIndex("ix_analyses_user_id_created_at", TRUE),
  Drop("analyses"), DropTypes(AnalysisEnums) >>

NewsEnums == {"newssource", "newscategory", "indextype"}

NewsIngestionUp == <<
  Types(NewsEnums),
  Add("indices", {}, {"boursorama_ticker"}, NoEnum, FALSE),
  Add("indices", {}, {}, [index_type |-> "indextype"], TRUE),
  Create("news_items", {"id", "title", "source_url", "fetched_at"},
         {"summary", "content_markdown", "boursorama_ticker", "published_at", "ingest_run_id"},
         [source |-> "newssource", category |-> "newscategory"], {}),
  Index("ix_news_items_category_fetched_at", "news_items", {"category", "fetched_at"}) >>

NewsIngestionDown == <<
  DropIndex("ix_news_items_category_fetched_at", TRUE), Drop("news_items"),
  DropColumn("indices", "index_type"), DropColumn("indices", "boursorama_ticker"),
  DropTypes(NewsEnums) >>

NewsItemEmbeddingUp == <<
  Add("news_items", {}, {"content_embedding"}, NoEnum, FALSE),
  Index("ix_news_items_content_embedding_hnsw", "news_items", {"content_embedding"}) >>

NewsItemEmbeddingDown == <<
  DropIndex("ix_news_items_content_embedding_hnsw", FALSE),
  DropColumn("news_items", "content_embedding") >>

YahooSymbolUp == << Add("indices", {}, {"yahoo_symbol"}, NoEnum, FALSE) >>

YahooSymbolDown == << DropColumn("indices", "yahoo_symbol") >>

Ups == << PortfolioCoreUp, AnalysisRecommendationUp, NewsIngestionUp, NewsItemEmbeddingUp, YahooSymbolUp >>

Downs == << PortfolioCoreDown, AnalysisRecommendationDown, NewsIngestionDown, NewsItemEmbeddingDown,
            YahooSymbolDown >>

-----------------------------------------------------------------------------
(* The statements from one revision to another, downwards or upwards.      *)
Path(from, to) ==
  FlattenSeq(IF from <= to THEN SubSeq(Ups, from + 1, to) ELSE Reverse(SubSeq(Downs, to + 1, from)))

(* A transaction runs the statements in turn, until one is refused.        *)
Revised(path, db, rows) ==
  LET Then(result, s) ==
        IF ~result.ok \/ Refused(s, result.db, rows) THEN [ok |-> FALSE, db |-> db]
        ELSE [ok |-> TRUE, db |-> Effect(s, result.db)]
  IN  FoldLeft(Then, [ok |-> TRUE, db |-> db], path)

MigrationInit ==
  /\ revision = 0 /\ schema = Empty /\ filled = {}
  /\ migration = [r \in Runs |-> [at |-> "idle", from |-> 0, to |-> 0]]

(* `alembic upgrade` or `downgrade` reads the revision and plans its path. *)
Plans(r) ==
  /\ migration[r].at # "planned"
  /\ \E to \in 0 .. Len(Ups) \ {revision} :
       migration' = [migration EXCEPT ![r] = [at |-> "planned", from |-> revision, to |-> to]]
  /\ UNCHANGED <<revision, schema, filled>>

(* Its transaction commits, or fails and leaves nothing.                   *)
Migrates(r) ==
  LET m == migration[r]
      result == Revised(Path(m.from, m.to), schema, filled)
  IN  /\ m.at = "planned"
      /\ IF result.ok /\ revision = m.from
         THEN /\ revision' = m.to /\ schema' = result.db
              /\ filled' = filled \cap result.db.tables
              /\ migration' = [migration EXCEPT ![r] = [at |-> "done", from |-> 0, to |-> 0]]
         ELSE /\ migration' = [migration EXCEPT ![r] = [at |-> "failed", from |-> 0, to |-> 0]]
              /\ UNCHANGED <<revision, schema, filled>>

(* The run is stopped, or its connection lost: rolled back.                *)
Killed(r) ==
  /\ migration[r].at = "planned"
  /\ migration' = [migration EXCEPT ![r] = [at |-> "idle", from |-> 0, to |-> 0]]
  /\ UNCHANGED <<revision, schema, filled>>

(* The services store rows, parents first.                                 *)
Fills(t) ==
  /\ t \in (schema.tables \cap Filling) \ filled
  /\ \A k \in schema.keys : k[1] = t /\ k[2] \in Filling => k[2] \in filled
  /\ filled' = filled \cup {t} /\ UNCHANGED <<revision, schema, migration>>

MigrationNext ==
  \/ \E r \in Runs : Plans(r) \/ Migrates(r) \/ Killed(r)
  \/ \E t \in schema.tables : Fills(t)

-----------------------------------------------------------------------------
(* The columns that the ORM models of nam_db expect to find.              *)
User ==
  ColumnsOf("users", {"id", "firstname", "date_of_birth", "goals", "created_at", "updated_at"}, {},
            [strategy |-> "strategy_enum"])

IndexModel ==
  ColumnsOf("indices", {"id", "name", "isin", "created_at"}, {"boursorama_ticker", "yahoo_symbol"},
            [index_type |-> "indextype"])

Transaction ==
  ColumnsOf("transactions", {"id", "user_id", "index_id", "price", "quantity", "date", "created_at"},
            {"fees"}, [type |-> "transaction_type_enum"])

Position ==
  ColumnsOf("positions", {"id", "user_id", "index_id", "quantity", "average_cost", "last_update"}, {},
            NoEnum)

Analysis ==
  ColumnsOf("analyses", {"id", "user_id", "title", "content", "content_embedding", "created_at"},
            {"index_id"}, [agent |-> "agent_enum", trigger |-> "analysis_trigger_enum"])

Recommendation ==
  ColumnsOf("recommendations", {"id", "user_id", "content", "created_at"},
            {"user_comment", "resolved_at"},
            [agent |-> "agent_enum", type |-> "recommendation_type_enum",
             status |-> "recommendation_status_enum"])
  \cup ColumnsOf("recommendation_analyses", {"recommendation_id", "analysis_id"}, {}, NoEnum)

NewsItem ==
  ColumnsOf("news_items", {"id", "title", "source_url", "fetched_at"},
            {"summary", "content_markdown", "boursorama_ticker", "published_at",
             "ingest_run_id", "content_embedding"},
            [source |-> "newssource", category |-> "newscategory"])

Models ==
  User \cup IndexModel \cup Transaction \cup Position \cup Analysis \cup Recommendation
  \cup NewsItem

(* The schema of a database upgraded from nothing to each revision.        *)
Fresh == [v \in 0 .. Len(Ups) |-> Revised(Path(0, v), Empty, {}).db]

(* Every run of alembic that is not stopped reaches its target, or fails   *)
(* because another run moved the database first: never on the rows that    *)
(* the services have stored, nor on what a downgrade left behind.  At its  *)
(* target the schema is that of a fresh upgrade, whatever the way there    *)
(* (the vector extension may stay), and at head it is what the models say. *)
RunsReachTheirTarget ==
  [][\A r \in Runs :
       /\ migration[r].at = "planned" /\ migration'[r].at = "failed" => revision # migration[r].from
       /\ migration[r].at = "planned" /\ migration'[r].at = "done" =>
            /\ [schema' EXCEPT !.types = @ \cup {"vector"}] =
               [Fresh[revision'] EXCEPT !.types = @ \cup {"vector"}]
            /\ revision' = Len(Ups) => schema'.columns = Models]_migrationVars
=============================================================================
