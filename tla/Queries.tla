------------------------------- MODULE Queries -------------------------------
(***************************************************************************)
(* The reads of the users table that answer from one or two statements:    *)
(* list, recent, the counts, the domains, created-per-day and search, with *)
(* the order of the routes they are reached by and the checks of their     *)
(* parameters, while writers (Users) create, change and delete rows.       *)
(*                                                                         *)
(* Time is counted in halves of a day, so that an instant is a midnight or *)
(* is not.  An email is its domain: EmailStr stores it in lower case, and  *)
(* makes an internationalised one Unicode, which extract_domain refuses.   *)
(* PostgreSQL is external: without ORDER BY an OFFSET and a LIMIT take any *)
(* rows, others for every statement.  A page is the set of its users; the  *)
(* order within it is left out.                                            *)
(***************************************************************************)
EXTENDS Integers, FiniteSets, Sequences, SequencesExt, FiniteSetsExt, Functions

CONSTANTS Users, Domains,
          EmailsOf,    \* the domains the email of a user may have
          Usable,      \* the domains extract_domain takes
          NameOf,      \* the full_name of each user, or None
          Matches,     \* the names the search string is part of
          None, Word,  \* no value; a parameter that is not a number
          WINDOW_DAYS, MAX_LIMIT, MIN_COUNT_MAX, SCAN_LIMIT,
          Skips, Limits, MinCounts,   \* parameters of the requests
          FirstInstant, LastInstant   \* bound: when the clock starts and stops

ASSUME QueriesConstants ==
  /\ {WINDOW_DAYS, MAX_LIMIT, SCAN_LIMIT} \subseteq Nat \ {0}
  /\ {MIN_COUNT_MAX, FirstInstant, LastInstant} \subseteq Nat /\ Skips \subseteq Int
  /\ Usable \subseteq Domains /\ None \notin Domains
  /\ EmailsOf \in [Users -> SUBSET Domains]
  /\ IsFiniteSet(Users)

\* The columns of a row that these reads use.
Rows == [email : Domains, domain : Domains, active : BOOLEAN, deleted : BOOLEAN, created : Nat]
ASSUME NoneIsNoRow == None \notin Rows

VARIABLES row,    \* the row of each user, or None
          now,    \* the clock
          req,    \* the read under way, or None
          ans,    \* status and body of an answer, when one was just given
          newer   \* history: users created since the first statement of that read

vars == <<row, now, req, ans, newer>>

Midnight(day) == 2 * day
Day(instant)  == instant \div 2
Today         == Day(now)

Made    == {u \in Users : row[u] # None}
IsLive(u) == ~row[u].deleted
Live    == {u \in Made : IsLive(u)}
InDay(u, day) == Midnight(day) <= row[u].created /\ row[u].created < Midnight(day + 1)

-----------------------------------------------------------------------------
\* The statements.
count_users == Cardinality(Live)

\* The pages an OFFSET and a LIMIT may return.
Rest(skip) == IF skip < count_users THEN count_users - skip ELSE 0
get_users(skip, limit) == kSubset(IF limit < Rest(skip) THEN limit ELSE Rest(skip), Live)

\* Mutant: a deleted user still counts as inactive.
CountsOfAll ==
  [active |-> Cardinality({u \in Live : row[u].active}),
   inactive |-> Cardinality({u \in Made : ~row[u].active})]

get_active_user_counts ==
  [active |-> Cardinality({u \in Live : row[u].active}),
   inactive |-> Cardinality({u \in Live : ~row[u].active})]

count_users_today(today) == Cardinality({u \in Live : InDay(u, today)})

\* Mutant: the groups are those of the domain column.
ByColumn(min) ==
  LET count == [d \in {row[u].domain : u \in Live} |-> Cardinality({u \in Live : row[u].domain = d})]
  IN  RestrictValues(count, LAMBDA n : min = None \/ n >= min)

count_users_by_domain(min) ==
  LET count == [d \in {row[u].email : u \in Live} |-> Cardinality({u \in Live : row[u].email = d})]
  IN  RestrictValues(count, LAMBDA n : min = None \/ n >= min)

extract_domains(emails) == emails \cap Usable
get_distinct_domains    == extract_domains({row[u].email : u \in Live})

\* The pages an ORDER BY created_at DESC LIMIT may return.
get_recent_users(limit) ==
  {page \in SUBSET Made :
     /\ Cardinality(page) = IF limit < Cardinality(Made) THEN limit ELSE Cardinality(Made)
     /\ \A u \in page, v \in Made \ page : row[u].created >= row[v].created}

window(today) == [i \in 1..WINDOW_DAYS |-> today - WINDOW_DAYS + i]

\* Mutant: deleted users are left out, as in the other counts.
PerLiveDay(days) == [i \in DOMAIN days |-> Cardinality({u \in Live : InDay(u, days[i])})]

get_created_per_day(days) == [i \in DOMAIN days |-> Cardinality({u \in Made : InDay(u, days[i])})]

\* The answers that search may give.
Hit(u, name) == NameOf[u] # None /\ (name = "" \/ NameOf[u] \in Matches)
search(name) == {{u \in users : Hit(u, name)} : users \in get_users(0, SCAN_LIMIT)}

-----------------------------------------------------------------------------
\* Routes of one segment under /users, and /recent-users and /search, in the order
\* main.py includes their routers; user_id is the path parameter {user_id}.
Route(m, p, h) == [methods |-> m, path |-> p, handler |-> h]
Get(p)         == Route({"GET"}, p, p)

AnalyticsRoutes == <<Get("created-per-day")>>
UsersRoutes ==
  <<Route({"POST"}, "users", "create"), Get("users"), Get("count"), Get("count-today"),
    Get("count-by-domain"), Get("domains"), Get("active-count"),
    Route({"POST", "PUT", "PATCH", "DELETE"}, "active-count", "refuse"),
    Get("by-email"), Route({"GET"}, "user_id", "get"), Route({"PUT"}, "user_id", "update"),
    Route({"DELETE"}, "by-email", "delete_by_email"), Route({"DELETE"}, "user_id", "delete")>>

\* Mutant: the routers in the order of their names.
UsersFirst == UsersRoutes \o AnalyticsRoutes \o <<Get("recent-users"), Get("search")>>

Routes == AnalyticsRoutes \o UsersRoutes \o <<Get("recent-users"), Get("search")>>

TopLevel == {"users", "recent-users", "search"}
Methods  == {"GET", "POST", "PUT", "PATCH", "DELETE"}
Literals == {Routes[i].path : i \in DOMAIN Routes} \ {"user_id"}

\* The first route that matches is taken (Starlette); a path that only matches with
\* another method is a 405.
PathMatches(i, p) == Routes[i].path = p \/ (Routes[i].path = "user_id" /\ p \notin TopLevel)
HandlerOf == [m \in Methods |-> [p \in Literals |->
  LET full == {i \in DOMAIN Routes : PathMatches(i, p) /\ m \in Routes[i].methods}
  IN  IF full = {} THEN "refuse" ELSE Routes[Min(full)].handler]]

validate_limit(x)     == x \in 1..MAX_LIMIT
validate_min_count(x) == x = None \/ x \in 0..MIN_COUNT_MAX

Init == /\ row = [u \in Users |-> None]
        /\ now = FirstInstant
        /\ req = None
        /\ ans = None
        /\ newer = {}

\* The commits of Users.
Written(u, r) ==
  /\ row' = [row EXCEPT ![u] = r]
  /\ newer' = IF row[u] = None /\ req # None THEN newer \cup {u} ELSE newer
  /\ ans' = None
  /\ UNCHANGED <<now, req>>

\* create_user; populate_domain unless the client sent a domain.
Create(u) ==
  /\ row[u] = None
  /\ \E e, d \in EmailsOf[u] :
       Written(u, [email |-> e, domain |-> d, active |-> TRUE, deleted |-> FALSE, created |-> now])

\* update_user and deactivate_user: the domain column stays as it is.
Update(u) ==
  /\ u \in Live
  /\ \E e \in EmailsOf[u], a \in BOOLEAN :
       Written(u, [row[u] EXCEPT !.email = e, !.active = a])

Delete(u) ==
  /\ u \in Live
  /\ Written(u, [row[u] EXCEPT !.deleted = TRUE])

Tick == /\ now < LastInstant
        /\ now' = now + 1
        /\ ans' = None
        /\ UNCHANGED <<row, req, newer>>

Answer(status, body) ==
  /\ req' = None
  /\ ans' = [status |-> status, body |-> body]
  /\ newer' = {}
  /\ UNCHANGED <<row, now>>

Await(q) == req' = q /\ ans' = None /\ UNCHANGED <<row, now, newer>>

\* A write to a literal path: the route's own 405, or the 400 of an id that is no UUID.
RefuseWrite ==
  /\ req = None
  /\ \E handler \in UNION {Range(HandlerOf[m]) : m \in Methods} :
       \/ handler = "refuse" /\ Answer(405, None)
       \/ handler \in {"get", "update", "delete"} /\ Answer(400, None)

\* A read that its route takes begins: what it is given was checked.
Begin(path, accepted) == req = None /\ HandlerOf["GET"][path] = path /\ accepted

RefuseRead ==
  /\ \/ \E l \in Limits : Begin("recent-users", ~validate_limit(l))
     \/ \E l \in Limits : Begin("users", ~validate_limit(l))
     \/ \E n \in MinCounts : Begin("count-by-domain", ~validate_min_count(n))
     \/ Begin("search", TRUE)   \* without a name
  /\ Answer(400, None)

\* One statement, then the answer.
AnswerOne ==
  /\ \/ Begin("count", TRUE) /\ Answer(200, count_users)
     \/ Begin("domains", TRUE) /\ Answer(200, get_distinct_domains)
     \/ Begin("active-count", TRUE) /\ Answer(200, get_active_user_counts)
     \/ \E n \in MinCounts : /\ Begin("count-by-domain", validate_min_count(n))
                             /\ Answer(200, count_users_by_domain(n))
     \/ \E name \in {"", "name"} : \E found \in search(name) :
          Begin("search", TRUE) /\ Answer(200, found)

\* count_users_today and get_created_per_day take the date before they ask.
TakeDate ==
  /\ \E path \in {"count-today", "created-per-day"} :
       Begin(path, TRUE) /\ Await([path |-> path, today |-> Today])

AnswerDate ==
  /\ req # None
  /\ \/ req.path = "count-today" /\ Answer(200, count_users_today(req.today))
     \/ req.path = "created-per-day" /\ Answer(200, get_created_per_day(window(req.today)))

\* The first statement of list_users and get_recent_users.
ReadPage ==
  \E l \in Limits :
    \/ \E skip \in Skips :
         /\ Begin("users", validate_limit(l)) /\ skip >= 0
         /\ \E page \in get_users(skip, l) :
              Await([path |-> "users", skip |-> skip, limit |-> l, page |-> page])
    \/ /\ Begin("recent-users", validate_limit(l))
       /\ \E page \in get_recent_users(l) :
            Await([path |-> "recent-users", skip |-> 0, limit |-> l, page |-> page])

\* Mutant: the total is that of the table.
TotalOfAll ==
  /\ req # None /\ req.path \in {"users", "recent-users"}
  /\ Answer(200, [page |-> req.page, total |-> Cardinality(Made)])

\* Their second statement.
Total ==
  /\ req # None /\ req.path \in {"users", "recent-users"}
  /\ Answer(200, [page |-> req.page, total |-> count_users])

\* A statement fails, or PostgreSQL refuses a negative OFFSET; search catches nothing.
Fail ==
  /\ Answer(503, None) \/ (Begin("search", TRUE) /\ Answer(500, None))

Next == \/ \E u \in Users : Create(u) \/ Update(u) \/ Delete(u)
        \/ Tick \/ RefuseWrite \/ RefuseRead \/ AnswerOne \/ TakeDate \/ AnswerDate
        \/ ReadPage \/ Total \/ Fail

Spec == Init /\ [][Next]_vars

-----------------------------------------------------------------------------
\* What separate routes say of one table agrees: active-count adds up to count,
\* created-per-day puts every user of its days into one day, its last day is
\* count-today and the users deleted since, and an empty search within its scan limit
\* finds every user that has a name.
CountsAgree ==
  /\ get_active_user_counts.active + get_active_user_counts.inactive = count_users
  /\ LET days == window(Today)  counts == get_created_per_day(days) IN
       /\ counts[WINDOW_DAYS] = count_users_today(Today)
                                + Cardinality({u \in Made \ Live : InDay(u, Today)})
       /\ MapThenSumSet(LAMBDA i : counts[i], DOMAIN counts)
            = Cardinality({u \in Made : Day(row[u].created) \in ToSet(days)})
  /\ count_users <= SCAN_LIMIT => search("") = {{u \in Live : NameOf[u] # None}}

\* The domain routes speak of the emails users have now, whatever the domain column
\* still says: every live user is in one group of count-by-domain, and the groups of
\* usable domains are what /users/domains lists.
DomainsAgree ==
  LET groups == count_users_by_domain(None) IN
  /\ MapThenSumSet(LAMBDA d : groups[d], DOMAIN groups) = count_users
  /\ DOMAIN groups \cap Usable = get_distinct_domains
  /\ \A u \in Live : row[u].email \in DOMAIN groups

\* What created-per-day has said of a day is never taken back: users deleted since
\* still count (get_created_per_day).
PerDayNeverShrinks ==
  [][\A day \in 0..Day(LastInstant) :
       get_created_per_day(<<day>>)[1]' >= get_created_per_day(<<day>>)[1]]_row

\* A page shorter than its limit is the last: what the total counts beyond it was created
\* between the two statements (list_users, get_recent_users), whatever was deleted or
\* changed there, and whichever rows an OFFSET without an ORDER BY has left out.
ShortPageIsLast ==
  [][req # None /\ req.path \in {"users", "recent-users"} /\ req' = None /\ ans'.status = 200
       /\ Cardinality(req.page) < req.limit
     => ans'.body.total <= req.skip + Cardinality(ans'.body.page) + Cardinality(newer)]_vars

\* A request that comes finds the route written for it: none is hidden by a route with
\* {user_id} that comes before it.
LiteralRoutesReached ==
  req = None => \A i \in DOMAIN Routes : \A m \in Routes[i].methods :
    Routes[i].path \in Literals => HandlerOf[m][Routes[i].path] = Routes[i].handler
=============================================================================
