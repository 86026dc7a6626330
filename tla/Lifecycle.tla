------------------------------ MODULE Lifecycle ------------------------------
(***************************************************************************)
(* One compose project: a database that keeps its data in memory, and the  *)
(* app container, whose entrypoint runs the migrations and then serves     *)
(* (docker-entrypoint.sh, alembic/, src/db/session.py, lifespan in         *)
(* src/main.py).  Deploys and reverts replace the app, never the database; *)
(* either may die at any step.                                             *)
(*                                                                         *)
(* Docker, PostgreSQL and alembic's own machinery are external: DDL is     *)
(* transactional, and a revision that is not known is refused.             *)
(***************************************************************************)
EXTENDS Naturals, FiniteSets

CONSTANTS Images, HeadOf,   \* the last revision each image knows
          None, MaxLives, \* bound: databases and app containers started
          MaxServed       \* bound: requests counted by one process

Revisions == 1..4   \* create users; defaults; deleted_at; domain
Schema == [made : SUBSET Revisions, version : 0..4]
Lives  == 0..MaxLives

ASSUME LifecycleConstants ==
  /\ HeadOf \in [Images -> Revisions]
  /\ {MaxLives, MaxServed} \subseteq Nat
  /\ None \notin Schema \cup Images \cup Lives

VARIABLES db,    \* life of the database, whether it is up, its revisions and alembic_version
          tx,    \* the migrations' open transaction, or None
          app,   \* the app container
          users, \* the emails in the users table: 0 the seeded one, and those of LiveGates
          left   \* history: the images whose migrations have been committed

vars == <<db, tx, app, users, left>>

Empty  == [made |-> {}, version |-> 0]

Models(image) == 1..HeadOf[image]      \* what the tables of its models need
Gone == [app EXCEPT !.at = "gone", !.engine = FALSE]

Init == /\ db = [life |-> 0, up |-> FALSE, schema |-> Empty]
        /\ tx = None
        /\ app = [life |-> 0, at |-> "none", image |-> None, engine |-> FALSE,
                  served |-> 0, first |-> None]
        /\ users = {} /\ left = {}

-----------------------------------------------------------------------------
\* The data directory is a tmpfs: it starts empty.
StartDatabase ==
  /\ ~db.up /\ db.life < MaxLives
  /\ db' = [life |-> db.life + 1, up |-> TRUE, schema |-> Empty]
  /\ users' = {}
  /\ UNCHANGED <<tx, app, left>>

\* Whoever is in the middle of the migrations loses the connection, and dies of it (set -e).
StopDatabase ==
  /\ db.up
  /\ db' = [db EXCEPT !.up = FALSE]
  /\ tx' = None
  /\ app' = IF app.at \in {"start", "upgrade", "stamp"} THEN Gone ELSE app
  /\ UNCHANGED <<users, left>>

\* compose up: the container there is stopped first, its lifespan disposes of the engine.
Up(image) ==
  /\ app.at \in {"none", "gone", "refused"} \/ image # app.image
  /\ db.up /\ app.life < MaxLives
  /\ tx' = None
  /\ app' = [life |-> app.life + 1, at |-> "start", image |-> image, engine |-> FALSE,
             served |-> 0, first |-> None]
  /\ UNCHANGED <<db, users, left>>

\* alembic upgrade head: one transaction, if the version there is one this image knows.
BeginUpgrade ==
  /\ app.at = "start" /\ db.up
  /\ IF db.schema.version <= HeadOf[app.image]
     THEN app' = [app EXCEPT !.at = "upgrade"] /\ tx' = db.schema
     ELSE app' = [Gone EXCEPT !.at = "refused"] /\ UNCHANGED tx
  /\ UNCHANGED <<db, users, left>>

\* Mutant: every statement commits.
UpgradeCommitted ==
  /\ app.at = "upgrade" /\ tx.version < HeadOf[app.image]
  /\ tx' = [tx EXCEPT !.made = @ \cup {tx.version + 1}]
  /\ db' = [db EXCEPT !.schema = tx']
  /\ app' = [app EXCEPT !.at = "stamp"]
  /\ UNCHANGED <<users, left>>

\* upgrade() of the next revision.
Upgrade ==
  /\ app.at = "upgrade" /\ tx.version < HeadOf[app.image]
  /\ tx' = [tx EXCEPT !.made = @ \cup {tx.version + 1}]
  /\ app' = [app EXCEPT !.at = "stamp"]
  /\ UNCHANGED <<db, users, left>>

\* Then its row in alembic_version.
Stamp ==
  /\ app.at = "stamp"
  /\ tx' = [tx EXCEPT !.version = @ + 1]
  /\ app' = [app EXCEPT !.at = "upgrade"]
  /\ UNCHANGED <<db, users, left>>

\* The transaction commits.  What is left of alembic may still fail, and so may uvicorn.
Commit ==
  /\ app.at = "upgrade" /\ tx.version = HeadOf[app.image]
  /\ db' = [db EXCEPT !.schema = tx]
  /\ tx' = None
  /\ app' = [app EXCEPT !.at = "committed"]
  /\ left' = left \cup {app.image}
  /\ UNCHANGED users

\* alembic has ended, uvicorn took its place and imported the app, whose lifespan makes
\* the engine; none of it asks the database.
Serve ==
  /\ app.at = "committed"
  /\ app' = [app EXCEPT !.at = "serving", !.engine = TRUE]
  /\ UNCHANGED <<db, tx, users, left>>

\* The container is killed, or what its entrypoint runs ends with an error: an open
\* transaction is rolled back.
Kill ==
  /\ app.at \in {"start", "upgrade", "stamp", "committed", "serving"}
  /\ app' = Gone /\ tx' = None
  /\ UNCHANGED <<db, users, left>>

\* StatsCounterMiddleware counts a request before it is handled.  Two processes never
\* have the same first instant; their lives stand for it.
Counted(n) ==
  /\ app.at = "serving" /\ app.served + n <= MaxServed
  /\ app' = [app EXCEPT !.served = @ + n, !.first = app.life]

\* GET /health of the container's own health check, which counts as any request.
SelfCheck == Counted(1) /\ UNCHANGED <<db, tx, users, left>>

\* A response, with the process and the database it comes from for the properties.
Answer(status, body) ==
  [status |-> status, body |-> body, process |-> app.life, store |-> db.life]

\* health_check: a query that fails is "unavailable", a connection that is refused a 500.
health_check == IF db.up THEN {Answer(200, "connected")}
                ELSE {Answer(200, "unavailable"), Answer(500, None)}

\* seed.sql, run into the database once its schema is there.
Seed ==
  /\ db.up /\ app.at = "serving" /\ Models(app.image) \subseteq db.schema.made
  /\ users' = users \cup {0}
  /\ UNCHANGED <<db, tx, app, left>>

LifecycleNext ==
  \/ StartDatabase \/ StopDatabase \/ BeginUpgrade \/ Upgrade \/ Stamp \/ Commit \/ Serve \/ Kill
  \/ SelfCheck \/ Seed
  \/ \E image \in Images : Up(image)

Spec == Init /\ [][LifecycleNext]_vars

-----------------------------------------------------------------------------
LifecycleTypeOK ==
  /\ db \in [life : Lives, up : BOOLEAN, schema : Schema]
  /\ tx \in Schema \cup {None}
  /\ app \in [life : Lives, image : Images \cup {None}, engine : BOOLEAN,
              at : {"none", "start", "upgrade", "stamp", "committed", "serving", "gone", "refused"},
              served : 0..MaxServed, first : Lives \cup {None}]
  /\ left \subseteq Images /\ users \subseteq Nat

\* What alembic_version names is what the tables are, whoever died in the middle of a
\* migration, so that the next container can take it from there (env.py's one
\* transaction).  A process that serves has an engine; from the commit of its migrations
\* on it has the tables of its models, unless the database was started again under it.
\* An image is refused only by a schema that the migrations of a later one have left; that
\* one need not ever have served, so that an image known to be good may be refused by what
\* a deploy that failed has left (docker-entrypoint.sh:9-12).
SchemaWhole ==
  /\ db.schema.made = 1..db.schema.version
  /\ app.engine = (app.at = "serving")
  /\ app.at \in {"committed", "serving"} /\ db.up =>
       db.schema = Empty \/ db.schema.version = HeadOf[app.image]
  /\ app.at = "refused" => \E later \in left : HeadOf[later] > HeadOf[app.image]
=============================================================================
