-------------------------------- MODULE Roles --------------------------------
(***************************************************************************)
(* Which role the server runs as, and what that role may do. Migrations    *)
(* 0024 and 0027 draw the roles and their grants, db:provision lets two of *)
(* them log in, db:setup does all of it for a throwaway container, and the *)
(* API asks the catalogue once, before it serves, whether the role it is   *)
(* connected as could undo what the tables guarantee                       *)
(* (connection-privileges.ts).                                             *)
(*                                                                         *)
(* PostgreSQL's rules of membership, ownership and grants are modelled as  *)
(* the code relies on them: a member may inherit a role's privileges, may  *)
(* SET ROLE to it, both or neither.                                        *)
(***************************************************************************)
EXTENDS Naturals, FiniteSets

CONSTANTS
  Group,     \* roles an operator made
  Acts,      \* what an operator may do to the catalogue in this instance
  Urls,      \* what DATABASE_URL may be when passwords are given
  Budget     \* bound: an operator's acts, the moves of a local port, the starts of the
             \* server and the runs of db:provision and db:setup, together

\* trustpass is the superuser; 0024 makes the other three.
New == {"owner", "migration", "runtime"}
Role == {"trustpass"} \cup New \cup Group
Public == "PUBLIC"
Attribute == {"superuser", "another"}   \* replication, bypassrls, createrole, createdb

\* membership stands for itself, actor, credential and capacity_grant_revocation: the
\* tables the runtime only reads and nothing asks about; append_only for the trigger
\* functions, actor_kind for the enums, handmade for a table no migration made.
Table == {"product", "lifecycle_event", "capacity_grant", "organization", "membership",
          "handmade"}
Object == Table \cup {"append_only", "actor_kind", "migrations"}
Made == Object \ {"handmade"}
NoOwner == "nobody"      \* the object does not exist

\* `column` is "whole" for a grant on the table; "organization_id" stands for the columns
\* of product that the API does not update and the server does not ask about.
Privilege == [on : Table \cup {"schema"}, may : {"select", "insert", "update", "delete", "create"},
              column : {"whole", "status", "updated_at", "serial", "trustpass_id",
                        "organization_id"}]
On(table, may) == [on |-> table, may |-> may, column |-> "whole"]
Of(column) == [on |-> "product", may |-> "update", column |-> column]
Grant == [to : Role \cup {Public}, privilege : Privilege]
Edge == [of : Role, to : Role, inherit : BOOLEAN, set : BOOLEAN]

\* A URL names a host and perhaps a port. The container publishes 5433.
Port == {"5432", "5433"}
Url == [host : {"localhost", "elsewhere", "unreadable"}, port : Port \cup {"none"}]

\* What an operator may do: grant and revoke, join a role to another and part them,
\* give a role an attribute, hand over or make an object, switch the guards.
Act ==
  [act : {"grant", "revoke"}, grant : Grant]
  \cup [act : {"join", "leave"}, edge : Edge]
  \cup [act : {"raise"}, role : Role, attribute : Attribute]
  \cup [act : {"hand"}, object : Object, role : Role]
  \cup [act : {"switch"}]

ASSUME RolesAssumption ==
  /\ Budget \in Nat /\ Urls \subseteq Url /\ Acts \subseteq Act
  /\ IsFiniteSet(Group)
  /\ Group \cap ({"trustpass", Public, NoOwner} \cup New) = {}

VARIABLES
  cat,       \* the catalogue
  stage,     \* committed: 1 up to 0023, 2 with 0024, 3 with 0027
  password,  \* of the two roles that may be let in
  server,    \* the API process, and what it has learnt of its connection
  ports,     \* who holds each local port
  atHome,    \* whether the database is the throwaway container
  giver,     \* db:provision
  setup,     \* db:setup
  budget     \* what is left of the bound

vars == <<cat, stage, password, server, ports, atHome, giver, setup, budget>>

----------------------------------------------------------------------------
(* What PostgreSQL says of a catalogue *)

\* These roles, and those they are members of.
Climb(edges, S) == S \cup {e.of : e \in {x \in edges : x.to \in S}}

\* The roles that `r` reaches over these memberships, itself with them.
Over(edges, r) ==
  LET up[n \in 0 .. Cardinality(Role)] == IF n = 0 THEN {r} ELSE Climb(edges, up[n - 1])
  IN up[Cardinality(Role)]

Member(c, r) == Over(c.member, r)                       \* pg_has_role(.., 'MEMBER')
Inherits(c, r) == Over({e \in c.member : e.inherit}, r)    \* 'USAGE'
MaySet(c, r) == Over({e \in c.member : e.set}, r)          \* 'SET'

Superuser(c, r) == "superuser" \in c.attr[r]

\* has_table_privilege and has_column_privilege: by inheritance and through PUBLIC
\* too, as the owner, and a grant on the table is one on each column.
Has(c, r, p) ==
  \/ Superuser(c, r)
  \/ \E x \in Inherits(c, r) :
       \/ p.on \in Object /\ c.owner[p.on] = x
       \/ \E g \in c.acl :
            /\ g.to \in {x, Public}
            /\ g.privilege \in {p, [p EXCEPT !.column = "whole"]}

\* ALTER ... OWNER TO drops the grants the new owner held.
Given(c, o, r) ==
  [c EXCEPT !.owner[o] = r,
            !.acl = {g \in @ : ~(g.to = r /\ g.privilege.on = o)}]

\* The migration role's sessions become the owner when they begin.
Effective(c, r) ==
  IF r = "migration" /\ "owner" \in MaySet(c, r) THEN "owner" ELSE r

\* The catalogue changes while a server is asking it.
Disturbed ==
  IF server.at \in {"connected", "asking"} THEN [server EXCEPT !.quiet = FALSE] ELSE server

\* A role whose password was cleared has LOGIN, and no password to give.
Login(r) ==
  r = "trustpass" \/ (r \in DOMAIN password /\ password[r] \in {"own", "published"})

----------------------------------------------------------------------------
(* The types *)

\* FORBIDDEN_PRIVILEGES: six entries, and no other column or table.
Window == {On("product", "update"), Of("serial"), Of("trustpass_id"),
           On("lifecycle_event", "update"), On("lifecycle_event", "delete"),
           On("capacity_grant", "insert")}
Down == [at |-> "down"]
Asking == [at : {"connected", "asking"}, user : Role, forced : BOOLEAN, failed : BOOLEAN,
           left : SUBSET Window, quiet : BOOLEAN]
Up == [at : {"up"}, user : Role, forced : BOOLEAN]
Quiet == [at |-> "idle"]
Passworded == {"migration", "runtime"}
Variable == {"unset", "empty", "set"}   \* what the environment has for a role's password
Source == {"none", "own", "published", "cleared"}
Catalogue == [member : SUBSET Edge, attr : [Role -> SUBSET Attribute], made : SUBSET Role,
              owner : [Object -> Role \cup {NoOwner}], acl : SUBSET Grant, guarded : BOOLEAN]
Giving == [at : {"allowed", "connected", "first"}, url : Url, env : [Passworded -> Variable],
           undisturbed : BOOLEAN]

\* The types, and that the script alters both roles or neither, whatever becomes of it
\* between the two.
RolesTypeOK ==
  /\ cat \in Catalogue
  /\ stage \in 0 .. 3
  /\ password \in [Passworded -> Source]
  /\ server \in {Down} \cup Asking \cup Up
  /\ ports \in [Port -> {"nobody", "compose", "tunnel"}]
  /\ atHome \in BOOLEAN
  /\ giver \in {Quiet} \cup Giving
  /\ setup \in {"not_run", "refused", "allowed", "started", "migrated", "provisioning",
               "ready", "failed"}
  /\ budget \in 0 .. Budget
  /\ (password["migration"] = "none") = (password["runtime"] = "none")

----------------------------------------------------------------------------
(* The migrations *)

\* 0000 - 0023, by whoever runs them, in whose name every object is made.
Tables(c, by) ==
  [c EXCEPT !.owner = [o \in Object |-> IF o \in Made THEN by ELSE @[o]],
            !.guarded = TRUE]

Reads == {On(t, "select") : t \in Table \ {"handmade"}}
Matrix == Reads \cup {On("product", "insert"), On("product", "update"),
                      On("lifecycle_event", "insert")}

\* 0024 makes the roles the cluster lacks, lets the migration role act as the owner,
\* gives the owner the objects it names (no type is among them), and grants the
\* runtime its matrix.
Separate(c) ==
  LET join == [of |-> "owner", to |-> "migration", inherit |-> TRUE, set |-> TRUE]
      named == Made \ {"actor_kind"}
      gone(g) == \/ g.to = "owner" /\ g.privilege.on \in named
                 \/ g.to = Public /\ g.privilege = On("schema", "create")
  IN [c EXCEPT
        !.made = @ \cup New,
        !.owner = [o \in Object |-> IF o \in named THEN "owner" ELSE @[o]],
        !.member = IF \E e \in @ : e.of = "owner" /\ e.to = "migration"
                   THEN @ ELSE @ \cup {join},
        !.acl = {g \in @ : ~gone(g)} \cup {[to |-> "runtime", privilege |-> p] : p \in Matrix}]

\* What 0024 asks before it commits: of every table and sequence, of what the runtime
\* may do, of the new roles' attributes, and whether history is still guarded.
Separated(c) ==
  /\ \A t \in Table : c.owner[t] \in {"owner", NoOwner}
  /\ \A p \in {On("lifecycle_event", "update"), On("lifecycle_event", "delete"),
               On("product", "delete"), On("capacity_grant", "insert"),
               On("organization", "insert"), On("schema", "create")} :
       ~Has(c, "runtime", p)
  /\ \A r \in New : c.attr[r] = {}
  /\ c.guarded

\* 0027: REVOKE on a table takes its columns' grants with it.
Narrow(c) ==
  [c EXCEPT !.acl = {g \in @ : ~(g.to = "runtime" /\ g.privilege.on = "product"
                                 /\ g.privilege.may = "update")}
                    \cup {[to |-> "runtime", privilege |-> Of(col)]
                            : col \in {"status", "updated_at"}}]

Narrowed(c) ==
  /\ \A col \in {"serial", "trustpass_id", "organization_id"} : ~Has(c, "runtime", Of(col))
  /\ ~Has(c, "runtime", On("product", "update"))
  /\ Has(c, "runtime", Of("status")) /\ Has(c, "runtime", Of("updated_at"))
  /\ Has(c, "runtime", On("product", "select")) /\ Has(c, "runtime", On("product", "insert"))
  /\ ~Has(c, "runtime", On("product", "delete"))

MayRun(k, c, by) ==
  IF k = 3 THEN Superuser(c, by) \/ c.owner["product"] \in Inherits(c, by)
           ELSE Superuser(c, by)
Migrated(k, c, by) ==
  CASE k = 1 -> Tables(c, by) [] k = 2 -> Separate(c) [] k = 3 -> Narrow(c)
Verified(k, c) == (k = 2 => Separated(c)) /\ (k = 3 => Narrowed(c))

\* The catalogue after each of the pending migrations.
After(c, by, from, to) ==
  LET after[k \in from .. to] == IF k = from THEN c ELSE Migrated(k, after[k - 1], by)
  IN after

\* Every pending migration in one transaction: all of them, or none.
Migrate(user, to) ==
  LET by == Effective(cat, user)
      after == After(cat, by, stage, to)
  IN /\ Login(user) /\ to > stage
     /\ \A k \in stage + 1 .. to : MayRun(k, after[k - 1], by) /\ Verified(k, after[k])
     /\ cat' = after[to]
     /\ stage' = to
     /\ server' = Disturbed

Deploy ==
  /\ \E user \in Role, to \in 1 .. 3 : Migrate(user, to)
  /\ UNCHANGED <<password, ports, atHome, giver, setup, budget>>

----------------------------------------------------------------------------
(* The operator *)

\* A superuser's own session: grants and memberships come and go, a role is given an
\* attribute, an object changes hands, a table is made, a guard is switched.
Acted(c, a) ==
  CASE a.act = "grant" -> [c EXCEPT !.acl = @ \cup {a.grant}]
    [] a.act = "revoke" ->
         [c EXCEPT !.acl = {g \in @ : ~(g.to = a.grant.to /\ g.privilege.on = a.grant.privilege.on
                                        /\ g.privilege.may = a.grant.privilege.may)}]
    [] a.act = "join" -> [c EXCEPT !.member = {e \in @ : <<e.of, e.to>> # <<a.edge.of, a.edge.to>>}
                                              \cup {a.edge}]
    [] a.act = "leave" -> [c EXCEPT !.member = @ \ {a.edge}]
    [] a.act = "raise" -> [c EXCEPT !.attr[a.role] = @ \cup {a.attribute}]
    [] a.act = "hand" -> Given(c, a.object, a.role)
    [] a.act = "switch" -> [c EXCEPT !.guarded = ~@]

RolesIn(a) ==
  CASE a.act \in {"grant", "revoke"} -> {a.grant.to} \ {Public}
    [] a.act \in {"join", "leave"} -> {a.edge.of, a.edge.to}
    [] a.act \in {"raise", "hand"} -> {a.role}
    [] OTHER -> {}

Operate ==
  /\ stage > 0 /\ budget > 0
  /\ \E a \in Acts :
       /\ RolesIn(a) \subseteq cat.made
       /\ a.act = "join" => a.edge.to \notin Member(cat, a.edge.of)  \* no circle
       /\ Acted(cat, a) # cat
       /\ cat' = Acted(cat, a)
  /\ server' = Disturbed
  /\ budget' = budget - 1
  /\ UNCHANGED <<stage, password, ports, atHome, giver, setup>>

----------------------------------------------------------------------------
(* The server's start *)

\* privilegeFailures, of what the first query reads: the role's attributes, and
\* whether it is a member of any role that owns anything.
RoleFails(c, r) ==
  \/ c.attr[r] # {}
  \/ \E o \in Object : c.owner[o] \in Member(c, r)

\* heldForbiddenPrivileges, of one entry; a table that is not there is a failure too.
EntryFails(c, r, p) == c.owner[p.on] = NoOwner \/ Has(c, r, p)

\* `forced` is TRUSTPASS_ALLOW_PRIVILEGED_DATABASE.
Start ==
  /\ server.at = "down" /\ budget > 0
  /\ \E user \in Role, forced \in BOOLEAN :
       /\ Login(user)
       /\ server' = [at |-> "connected", user |-> user, forced |-> forced, failed |-> FALSE,
                     left |-> {}, quiet |-> TRUE]
  /\ budget' = budget - 1
  /\ UNCHANGED <<cat, stage, password, ports, atHome, giver, setup>>

\* First the role, then every entry at once: the answers come in any order.
AskRole ==
  /\ server.at = "connected"
  /\ server' = [server EXCEPT !.at = "asking", !.left = Window,
                              !.failed = RoleFails(cat, Effective(cat, server.user))]
  /\ UNCHANGED <<cat, stage, password, ports, atHome, giver, setup, budget>>

AskEntry ==
  /\ server.at = "asking"
  /\ \E p \in server.left :
       server' = [server EXCEPT !.failed = @ \/ EntryFails(cat, Effective(cat, server.user), p),
                                !.left = @ \ {p}]
  /\ UNCHANGED <<cat, stage, password, ports, atHome, giver, setup, budget>>

\* A mutant: nobody awaits the answers.
ServeUnawaited ==
  /\ server.at = "asking" /\ (~server.failed \/ server.forced)
  /\ server' = [at |-> "up", user |-> server.user, forced |-> server.forced]
  /\ UNCHANGED <<cat, stage, password, ports, atHome, giver, setup, budget>>

Serve ==
  /\ server.at = "asking" /\ server.left = {} /\ (~server.failed \/ server.forced)
  /\ server' = [at |-> "up", user |-> server.user, forced |-> server.forced]
  /\ UNCHANGED <<cat, stage, password, ports, atHome, giver, setup, budget>>

\* assertConnectionIsUnprivileged throws, a query of its does, or the process ends.
Stop ==
  /\ server.at # "down"
  /\ server' = Down
  /\ UNCHANGED <<cat, stage, password, ports, atHome, giver, setup, budget>>

----------------------------------------------------------------------------
(* Passwords *)

\* What `docker compose ps` says: the services of this project, or nothing.
Unanswered == {}   \* refused like an answer that names no service
Answers ==
  {{[state |-> IF ports["5433"] = "compose" THEN "running" ELSE "exited",
     protocol |-> "tcp", port |-> "5433"]}}
  \cup {Unanswered}

PublishedPorts(ps) ==
  {s.port : s \in {x \in ps : x.state = "running" /\ x.protocol = "tcp"}}

\* A mutant: a URL without a port is taken to mean the container's.
PortOfCompose(url) == IF url.port = "none" THEN "5433" ELSE url.port
PortOf(url) == IF url.port = "none" THEN "5432" ELSE url.port

\* The published passwords are for the container on this machine: it is asked for, the
\* host is local, and the port is one that compose publishes.
MayUseLocalDevPasswords(requested, url, ps) ==
  /\ requested
  /\ url.host = "localhost"
  /\ ps # Unanswered /\ PortOf(url) \in PublishedPorts(ps)

\* Where the driver's connection ends: in this database, or in another one.
Reaches(url) ==
  IF url.host = "localhost"
  THEN ports[IF url.port = "none" THEN "5432" ELSE url.port]
         = (IF atHome THEN "compose" ELSE "tunnel")
  ELSE url.host = "elsewhere" /\ ~atHome

\* The roles whose variable is falsy: unset, or the empty string.
Missing(env) == {r \in Passworded : env[r] # "set"}

\* db:provision decides before it connects.
Decide(requested, url, env) ==
  /\ giver = Quiet /\ budget > 0
  /\ \E ps \in Answers :
       /\ Missing(env) = {} \/ MayUseLocalDevPasswords(requested, url, ps)
       /\ giver' = [at |-> "allowed", url |-> url, env |-> env, undisturbed |-> TRUE]
  /\ budget' = budget - 1

Provision ==
  /\ \E requested \in BOOLEAN, url \in Urls, env \in [Passworded -> Variable] :
       Decide(requested, url, env)
  /\ UNCHANGED <<cat, stage, password, server, ports, atHome, setup>>

\* It connects, as a superuser, and finds both roles.
Connect ==
  /\ giver.at = "allowed"
  /\ Reaches(giver.url) /\ Passworded \subseteq cat.made
  /\ giver' = [giver EXCEPT !.at = "connected"]
  /\ UNCHANGED <<cat, stage, password, server, ports, atHome, setup, budget>>

\* passwordFor: `??` lets the empty string through, which PostgreSQL takes for no
\* password and clears the role's.
WordOf(r) ==
  CASE giver.env[r] = "set" -> "own"
    [] giver.env[r] = "empty" -> "cleared"
    [] OTHER -> "published"

\* A mutant: each role is altered in a transaction of its own.
GiveOne ==
  /\ giver.at = "connected"
  /\ giver' = [giver EXCEPT !.at = "first"]
  /\ password' = [password EXCEPT !["migration"] = WordOf("migration")]
  /\ UNCHANGED <<cat, stage, server, ports, atHome, setup, budget>>

\* ALTER ROLE of the one, uncommitted, then of the other, and COMMIT.
GiveFirst ==
  /\ giver.at = "connected"
  /\ giver' = [giver EXCEPT !.at = "first"]
  /\ UNCHANGED <<cat, stage, password, server, ports, atHome, setup, budget>>

GiveSecond ==
  /\ giver.at = "first"
  /\ password' = [r \in Passworded |-> WordOf(r)]
  /\ giver' = Quiet
  /\ setup' = IF setup = "provisioning" THEN "ready" ELSE setup
  /\ UNCHANGED <<cat, stage, server, ports, atHome, budget>>

\* It refuses, it is connected to something else, or the connection is lost: the
\* transaction, if it had begun, is rolled back.
GiveUp ==
  /\ giver # Quiet
  /\ giver' = Quiet
  /\ setup' = IF setup = "provisioning" THEN "failed" ELSE setup
  /\ UNCHANGED <<cat, stage, password, server, ports, atHome, budget>>

\* The container starts and stops, a tunnel opens and closes, each on a free port.
Rebind ==
  /\ budget > 0
  /\ \E p \in Port, h \in {"nobody", "compose", "tunnel"} :
       /\ (ports[p] = "nobody") # (h = "nobody")
       /\ h = "compose" => p = "5433"
       /\ ports' = [ports EXCEPT ![p] = h]
  /\ giver' = IF giver.at = "allowed" THEN [giver EXCEPT !.undisturbed = FALSE] ELSE giver
  /\ budget' = budget - 1
  /\ UNCHANGED <<cat, stage, password, server, atHome, setup>>

----------------------------------------------------------------------------
(* db:setup, for the container *)

Home == [host |-> "localhost", port |-> "5433"]

SetupAsks ==
  /\ setup = "not_run" /\ atHome /\ budget > 0
  /\ \E ps \in Answers :
       setup' = IF MayUseLocalDevPasswords(TRUE, Home, ps) THEN "allowed" ELSE "refused"
  /\ budget' = budget - 1
  /\ UNCHANGED <<cat, stage, password, server, ports, atHome, giver>>

\* docker compose up: a running container is left alone, a taken port is an error.
SetupStarts ==
  /\ setup = "allowed"
  /\ \/ /\ ports["5433"] # "tunnel"
        /\ ports' = [ports EXCEPT !["5433"] = "compose"] /\ setup' = "started"
     \/ ports["5433"] = "tunnel" /\ setup' = "failed" /\ UNCHANGED ports
  /\ UNCHANGED <<cat, stage, password, server, atHome, giver, budget>>

SetupMigrates ==
  /\ setup = "started"
  /\ \/ stage = 3 /\ setup' = "migrated" /\ UNCHANGED <<cat, stage, server>>
     \/ Migrate("trustpass", 3) /\ setup' = "migrated"
     \/ setup' = "failed" /\ UNCHANGED <<cat, stage, server>>
  /\ UNCHANGED <<password, ports, atHome, giver, budget>>

SetupProvisions ==
  /\ setup = "migrated"
  /\ \/ \E env \in [Passworded -> Variable] : Decide(TRUE, Home, env)
        /\ setup' = "provisioning"
     \/ setup' = "failed" /\ UNCHANGED <<giver, budget>>
  /\ UNCHANGED <<cat, stage, password, server, ports, atHome>>

----------------------------------------------------------------------------
\* An empty database in a cluster whose other databases may have made the roles.
RolesInit ==
  /\ \E made \in {{"trustpass"} \cup Group, Role} :
       cat = [member |-> {}, made |-> made,
              attr |-> [r \in Role |-> IF r = "trustpass" THEN Attribute ELSE {}],
              owner |-> [o \in Object |-> NoOwner], acl |-> {}, guarded |-> FALSE]
  /\ stage = 0
  /\ password = [r \in Passworded |-> "none"]
  /\ server = Down
  /\ ports = [p \in Port |-> "nobody"]
  /\ atHome \in BOOLEAN
  /\ giver = Quiet
  /\ setup = "not_run"
  /\ budget = Budget

RolesNext ==
  \/ Deploy \/ Operate
  \/ Start \/ AskRole \/ AskEntry \/ Serve \/ Stop
  \/ Provision \/ Connect \/ GiveFirst \/ GiveSecond \/ GiveUp \/ Rebind
  \/ SetupAsks \/ SetupStarts \/ SetupMigrates \/ SetupProvisions

RolesSpec == RolesInit /\ [][RolesNext]_vars

----------------------------------------------------------------------------
(* Properties *)

\* The roles whose rights a connection can use: those it may become, and what they
\* inherit.
Wields(c, r) == UNION {Inherits(c, x) : x \in MaySet(c, r)}

\* What the six entries are said to protect: a product's identity, its history, and who
\* grants authority.
RewritesIdentity(c, r) == \E col \in {"serial", "trustpass_id"} : Has(c, r, Of(col))
EditsHistory(c, r) == \E may \in {"update", "delete"} : Has(c, r, On("lifecycle_event", may))
GrantsAuthority(c, r) == Has(c, r, On("capacity_grant", "insert"))

Harmless(c, r) ==
  /\ c.attr[r] = {}
  /\ \A o \in Object : c.owner[o] \notin Wields(c, r)
  /\ ~RewritesIdentity(c, r) /\ ~EditsHistory(c, r) /\ ~GrantsAuthority(c, r)

Owns(c, r) == \E o \in Object : c.owner[o] = r

\* A server that was not told to start anyway serves as a role that can neither use an
\* owner's rights, by inheriting them or by becoming the owner, nor, without becoming
\* another role, rewrite a product's serial or trustpass_id, edit history or insert a
\* grant, however the operator's memberships and grants and the migrations led there,
\* unless the catalogue changed while it was being asked
\* (assertConnectionIsUnprivileged). Of other columns and tables, and of what a role it
\* may SET ROLE to was granted, the code does not ask and nothing is said here. The role
\* is the one the session runs as, and while the owner owns anything, the one it logged
\* in as too: what is asked is current_user, and a migration's session can RESET ROLE.
StartsHarmless ==
  [][(server.at = "asking" /\ server'.at = "up" /\ ~server.forced /\ server.quiet)
        => /\ Harmless(cat, Effective(cat, server.user))
           /\ Owns(cat, "owner") => Harmless(cat, server.user)]_vars

\* A published password is given only to the throwaway container's roles, unless a
\* local port changed hands after the script had asked who holds it
\* (mayUseLocalDevPasswords).
PublishedStaysHome ==
  [][(password' # password /\ giver.undisturbed)
        => (atHome \/ \A r \in DOMAIN password : password'[r] # "published")]_vars

\* "By construction this passes" (setup-local.ts:80): db:setup, which starts the
\* container, is not refused by its own question.
SetupIsNotRefused == setup # "refused"
=============================================================================
