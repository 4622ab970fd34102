----------------------------- MODULE RolesProofs -----------------------------
(***************************************************************************)
(* What the roles may do and who gives them passwords, for any groups, any *)
(* acts of an operator and any budget of them.                             *)
(*                                                                         *)
(* What a role wields is a closure: Over climbs as many steps as there are *)
(* roles, and OverIsClosure shows by counting that this is enough, so that *)
(* what a check of has_table_privilege finds is all there is. On that rests *)
(* ToldIsSo: what a server was told while nothing was changed is still so. *)
(* GiverIsHome is the other half: a script about to give a published password *)
(* was answered by the container.                                          *)
(***************************************************************************)
EXTENDS Roles, FiniteSetTheorems, WellFoundedInduction, TLAPS

\* A number and a greater one.
Below == {p \in Nat \X Nat : p[1] < p[2]}

\* What holds of 0, and of n + 1 with n, holds of every number.
LEMMA SetInduction ==
  ASSUME NEW S, 0 \in S, \A n \in Nat : n \in S => n + 1 \in S
  PROVE  Nat \subseteq S
<1> SUFFICES ASSUME Nat \ S # {} PROVE FALSE
  OBVIOUS
<1>1. IsWellFoundedOn(Below, Nat)
  BY NatLessThanWellFounded DEF OpToRel, Below
<1>2. PICK x \in Nat \ S : \A y \in Nat \ S : <<y, x>> \notin Below
  <2>1. Nat \ S \subseteq Nat
    OBVIOUS
  <2> QED BY <1>1, <2>1, WFMin
<1>3. x # 0 /\ x - 1 \in Nat /\ x - 1 < x /\ x = (x - 1) + 1
  BY <1>2
<1>4. x - 1 \in S
  BY <1>2, <1>3 DEF Below
<1> QED BY <1>2, <1>3, <1>4

\* Each migration finds what the one before it left.
LEMMA AfterIs ==
  ASSUME NEW c, NEW by, NEW from \in 0 .. 3, NEW to \in 0 .. 3
  PROVE  \A k \in from .. to :
           After(c, by, from, to)[k] =
             IF k = from THEN c ELSE Migrated(k, After(c, by, from, to)[k - 1], by)
<1> DEFINE M(k, x) == Migrated(k, x, by)
           Eq(f) == f = [k \in from .. to |-> IF k = from THEN c ELSE M(k, f[k - 1])]
           g == [k \in from .. to |->
                  IF k = from THEN c
                  ELSE IF k = from + 1 THEN M(k, c)
                  ELSE IF k = from + 2 THEN M(k, M(k - 1, c))
                  ELSE M(k, M(k - 1, M(k - 2, c)))]
<1>1. Eq(g)
  <2> HIDE DEF M
  <2>1. ASSUME NEW k \in from .. to
        PROVE  g[k] = IF k = from THEN c ELSE M(k, g[k - 1])
    OBVIOUS
  <2> QED BY <2>1
<1>2. After(c, by, from, to) = CHOOSE f : Eq(f)
  BY DEF After
<1>3. Eq(After(c, by, from, to))
  <2> HIDE DEF Eq, g
  <2> QED BY <1>1, <1>2
<1>4. ASSUME NEW f, Eq(f), NEW k \in from .. to
      PROVE  f[k] = IF k = from THEN c ELSE M(k, f[k - 1])
  <2> HIDE DEF M
  <2> QED BY <1>4
<1> HIDE DEF Eq
<1>5. \A k \in from .. to :
        After(c, by, from, to)[k] =
          IF k = from THEN c ELSE M(k, After(c, by, from, to)[k - 1])
  BY <1>3, <1>4
<1> QED BY <1>5

-----------------------------------------------------------------------------

(* Membership of roles *)

\* As many steps up as one likes.
Rises(f, edges, r, n) ==
  f = [m \in 0 .. n |-> IF m = 0 THEN {r} ELSE Climb(edges, f[m - 1])]

\* There are as many steps as one likes.
LEMMA StepsExist ==
  ASSUME NEW edges, NEW r
  PROVE  \A n \in Nat : \E f : Rises(f, edges, r, n)
<1> DEFINE S == {n \in Nat : \E f : Rises(f, edges, r, n)}
<1>1. 0 \in S
  <2>1. Rises([m \in 0 .. 0 |-> {r}], edges, r, 0)
    BY DEF Rises
  <2> QED BY <2>1
<1>2. ASSUME NEW n \in Nat, n \in S
      PROVE  n + 1 \in S
  <2>1. PICK f : Rises(f, edges, r, n)
    BY <1>2
  <2> DEFINE g == [m \in 0 .. n + 1 |-> IF m = n + 1 THEN Climb(edges, f[n]) ELSE f[m]]
  <2>2. ASSUME NEW m \in 0 .. n + 1
        PROVE  g[m] = IF m = 0 THEN {r} ELSE Climb(edges, g[m - 1])
    <3>1. CASE m = n + 1
      BY <3>1
    <3>2. CASE m \in 0 .. n
      <4>1. f[m] = IF m = 0 THEN {r} ELSE Climb(edges, f[m - 1])
        BY <2>1, <3>2 DEF Rises
      <4>2. m # 0 => m - 1 \in 0 .. n /\ m - 1 # n + 1
        BY <3>2
      <4> QED BY <3>2, <4>1, <4>2
    <3> QED BY <3>1, <3>2
  <2>3. Rises(g, edges, r, n + 1)
    <3> HIDE DEF g
    <3>1. g = [m \in 0 .. n + 1 |-> g[m]]
      BY DEF g
    <3> QED BY <2>2, <3>1 DEF Rises
  <2> QED BY <2>3
<1>3. Nat \subseteq S
  <2> HIDE DEF S
  <2> QED BY <1>1, <1>2, SetInduction
<1> QED BY <1>3

\* Each step adds the roles of which those before it are members.
LEMMA EachStep ==
  ASSUME NEW f, NEW edges, NEW r, NEW n \in Nat, Rises(f, edges, r, n)
  PROVE  /\ f[0] = {r}
         /\ \A m \in 0 .. n : m # 0 => f[m] = Climb(edges, f[m - 1])
<1>1. \A m \in 0 .. n : f[m] = IF m = 0 THEN {r} ELSE Climb(edges, f[m - 1])
  BY DEF Rises
<1> QED BY <1>1

\* There is a number of roles, the operator's groups counted.
LEMMA RolesAreFinite == IsFiniteSet(Role) /\ Cardinality(Role) \in Nat
<1>1. IsFiniteSet({"trustpass"})
  BY FS_Singleton
<1>2. IsFiniteSet(New)
  <2>1. New = (({} \cup {"owner"}) \cup {"migration"}) \cup {"runtime"}
    BY DEF New
  <2> QED BY <2>1, FS_EmptySet, FS_AddElement
<1>3. IsFiniteSet(Group)
  BY RolesAssumption
<1>4. IsFiniteSet({"trustpass"} \cup New)
  BY <1>1, <1>2, FS_Union
<1>5. IsFiniteSet(Role)
  BY <1>3, <1>4, FS_Union DEF Role
<1> QED BY <1>5, FS_CardinalityType

\* The last step adds nothing: there are fewer roles than steps.
THEOREM OverIsClosure ==
  ASSUME NEW edges \in SUBSET Edge, NEW r \in Role
  PROVE  /\ r \in Over(edges, r) /\ Over(edges, r) \subseteq Role
         /\ \A e \in edges : e.to \in Over(edges, r) => e.of \in Over(edges, r)
         /\ \A S : (r \in S /\ \A e \in edges : e.to \in S => e.of \in S)
                   => Over(edges, r) \subseteq S
<1> DEFINE N == Cardinality(Role)
           up == CHOOSE f : Rises(f, edges, r, N)
<1>1. N \in Nat /\ IsFiniteSet(Role)
  BY RolesAreFinite
<1>2. Over(edges, r) = up[N]
  BY DEF Over, Rises, Climb
<1>3. Rises(up, edges, r, N)
  <2>1. \E f : Rises(f, edges, r, N)
    BY <1>1, StepsExist
  <2> QED BY <2>1
<1> HIDE DEF up, N
<1>4. up[0] = {r} /\ \A m \in 0 .. N : m # 0 => up[m] = Climb(edges, up[m - 1])
  BY <1>1, <1>3, EachStep
<1>5. ASSUME NEW S, r \in S, \A e \in edges : e.to \in S => e.of \in S
      PROVE  up[N] \subseteq S
  <2> DEFINE T == {n \in Nat : n <= N => up[n] \subseteq S}
  <2>1. 0 \in T
    BY <1>4, <1>5
  <2>2. ASSUME NEW n \in Nat, n \in T PROVE n + 1 \in T
    <3> SUFFICES ASSUME n + 1 <= N PROVE up[n + 1] \subseteq S
      OBVIOUS
    <3>1. up[n + 1] = Climb(edges, up[n]) /\ up[n] \subseteq S
      <4>1. n + 1 \in 0 .. N /\ n + 1 # 0 /\ (n + 1) - 1 = n /\ n <= N
        BY <1>1
      <4> QED BY <1>4, <2>2, <4>1
    <3> QED BY <1>5, <3>1 DEF Climb
  <2>3. Nat \subseteq T
    <3> HIDE DEF T
    <3> QED BY <2>1, <2>2, SetInduction
  <2> QED BY <1>1, <2>3
<1>6. up[N] \subseteq Role
  BY <1>5 DEF Edge
<1> DEFINE Done(n) == \A e \in edges : e.to \in up[n] => e.of \in up[n]
           T == {n \in Nat : n <= N =>
                   /\ up[n] \subseteq Role /\ r \in up[n]
                   /\ Done(n) \/ Cardinality(up[n]) >= n + 1}
<1>7. 0 \in T
  <2>1. Cardinality({r}) = 1
    BY FS_Singleton
  <2> QED BY <1>4, <2>1
<1>8. ASSUME NEW n \in Nat, n \in T PROVE n + 1 \in T
  <2> SUFFICES ASSUME n + 1 <= N
               PROVE  /\ up[n + 1] \subseteq Role /\ r \in up[n + 1]
                      /\ Done(n + 1) \/ Cardinality(up[n + 1]) >= (n + 1) + 1
    OBVIOUS
  <2>1. up[n + 1] = Climb(edges, up[n])
    <3>1. n + 1 \in 0 .. N /\ n + 1 # 0 /\ (n + 1) - 1 = n
      BY <1>1
    <3> QED BY <1>4, <3>1
  <2>2. /\ up[n] \subseteq Role /\ r \in up[n]
        /\ Done(n) \/ Cardinality(up[n]) >= n + 1
    BY <1>1, <1>8
  <2>3. up[n + 1] \subseteq Role /\ up[n] \subseteq up[n + 1]
    BY <2>1, <2>2 DEF Climb, Edge
  <2>4. CASE Done(n)
    <3>1. up[n + 1] = up[n]
      BY <2>1, <2>4 DEF Climb
    <3> QED BY <2>2, <2>4, <3>1
  <2>5. CASE ~Done(n)
    <3>1. PICK x : x \notin up[n] /\ \E e \in edges : e.to \in up[n] /\ e.of = x
      BY <2>5
    <3>2. up[n] \cup {x} \subseteq up[n + 1]
      BY <2>1, <3>1 DEF Climb
    <3>3. IsFiniteSet(up[n]) /\ IsFiniteSet(up[n + 1])
      BY <1>1, <2>2, <2>3, FS_Subset
    <3>4. Cardinality(up[n] \cup {x}) = Cardinality(up[n]) + 1
      <4> DEFINE U == up[n]
      <4>1. IsFiniteSet(U) /\ x \notin U
        BY <3>1, <3>3
      <4> HIDE DEF U
      <4>2. Cardinality(U \cup {x}) = Cardinality(U) + 1
        BY <4>1, FS_AddElement
      <4> QED BY <4>2 DEF U
    <3>5. Cardinality(up[n] \cup {x}) <= Cardinality(up[n + 1])
      BY <3>2, <3>3, FS_Subset
    <3>6. Cardinality(up[n]) \in Nat /\ Cardinality(up[n + 1]) \in Nat
      BY <3>3, FS_CardinalityType
    <3>7. Cardinality(up[n]) >= n + 1
      BY <2>2, <2>5
    <3> HIDE DEF Done
    <3> QED BY <2>2, <2>3, <3>4, <3>5, <3>6, <3>7
  <2> QED BY <2>4, <2>5
<1>9. N \in T
  <2> HIDE DEF T
  <2> QED BY <1>1, <1>7, <1>8, SetInduction
<1>10. Done(N)
  <2>1. up[N] \subseteq Role /\ (Done(N) \/ Cardinality(up[N]) >= N + 1)
    BY <1>1, <1>9
  <2>2. Cardinality(up[N]) <= N /\ Cardinality(up[N]) \in Nat
    <3>1. IsFiniteSet(up[N]) /\ Cardinality(up[N]) <= N
      BY <1>1, <1>6, FS_Subset DEF N
    <3> QED BY <3>1, FS_CardinalityType
  <2> HIDE DEF Done
  <2> QED BY <1>1, <2>1, <2>2
<1>11. r \in up[N]
  BY <1>1, <1>9
<1> QED BY <1>2, <1>5, <1>6, <1>10, <1>11

-----------------------------------------------------------------------------
(***************************************************************************)
(* The invariant.                                                          *)
(***************************************************************************)
\* A script that is about to give a published password was answered by the container,
\* which still holds the port while nobody disturbs it; once connected, it is connected
\* to the container.
GiverIsHome ==
  (giver # Quiet /\ giver.undisturbed /\ Missing(giver.env) # {}) =>
    /\ giver.at = "allowed" =>
         giver.url.host = "localhost" /\ giver.url.port = "5433" /\ ports["5433"] = "compose"
    /\ giver.at # "allowed" => atHome

\* What a server has been told is so while the catalogue is quiet.
ToldIsSo ==
  (server.at = "asking" /\ server.quiet /\ ~server.failed) =>
    /\ ~RoleFails(cat, Effective(cat, server.user))
    /\ \A p \in Window \ server.left : ~EntryFails(cat, Effective(cat, server.user), p)

\* The inductive invariant.
RolesInv == RolesTypeOK /\ GiverIsHome /\ ToldIsSo

-----------------------------------------------------------------------------
(***************************************************************************)
(* The types of the catalogue.                                             *)
(***************************************************************************)

\* The roles of the code and the operator's are told apart.
LEMMA RolesApart ==
  /\ {"trustpass", "owner", "migration", "runtime"} \subseteq Role
  /\ NoOwner \notin Role /\ Public \notin Role
BY RolesAssumption DEF Role, New, NoOwner, Public

\* What the migrations and the checks name are privileges, and to grant them is a grant.
LEMMA GrantsAreTyped ==
  /\ \A p \in Privilege, r \in Role \cup {Public} : [to |-> r, privilege |-> p] \in Grant
  /\ Matrix \subseteq Privilege /\ Window \subseteq Privilege
  /\ Of("status") \in Privilege /\ Of("updated_at") \in Privilege
BY DEF Grant, Privilege, Matrix, Window, Reads, On, Of, Table

\* Each migration turns a catalogue into a catalogue.
LEMMA MigratedIsTyped ==
  ASSUME NEW k \in 1 .. 3, NEW c \in Catalogue, NEW by \in Role
  PROVE  Migrated(k, c, by) \in Catalogue
<1>1. CASE k = 1
  <2>1. Migrated(k, c, by) = Tables(c, by)
    BY <1>1 DEF Migrated
  <2>2. Tables(c, by) \in Catalogue
    BY DEF Tables, Catalogue
  <2> QED BY <2>1, <2>2
<1>2. CASE k = 2
  <2>1. Migrated(k, c, by) = Separate(c)
    BY <1>2 DEF Migrated
  <2>2. Separate(c) \in Catalogue
    <3> DEFINE join == [of |-> "owner", to |-> "migration", inherit |-> TRUE, set |-> TRUE]
               named == Made \ {"actor_kind"}
               gone(g) == \/ g.to = "owner" /\ g.privilege.on \in named
                          \/ g.to = Public /\ g.privilege = On("schema", "create")
               made == c.made \cup New
               owner == [o \in Object |-> IF o \in named THEN "owner" ELSE c.owner[o]]
               member == IF \E e \in c.member : e.of = "owner" /\ e.to = "migration"
                         THEN c.member ELSE c.member \cup {join}
               acl == {g \in c.acl : ~gone(g)}
                      \cup {[to |-> "runtime", privilege |-> p] : p \in Matrix}
    <3>1. Separate(c) = [c EXCEPT !.made = made, !.owner = owner, !.member = member, !.acl = acl]
      BY DEF Separate
    <3>2. made \subseteq Role
      BY DEF Catalogue, Role
    <3>3. owner \in [Object -> Role \cup {NoOwner}]
      BY RolesApart DEF Catalogue
    <3>4. member \subseteq Edge
      <4>1. join \in Edge
        BY RolesApart DEF Edge
      <4> HIDE DEF join
      <4> QED BY <4>1 DEF Catalogue
    <3>5. acl \subseteq Grant
      <4>1. \A p \in Matrix : [to |-> "runtime", privilege |-> p] \in Grant
        BY RolesApart, GrantsAreTyped
      <4> HIDE DEF gone
      <4> QED BY <4>1 DEF Catalogue
    <3> HIDE DEF made, owner, member, acl
    <3> QED BY <3>1, <3>2, <3>3, <3>4, <3>5 DEF Catalogue
  <2> QED BY <2>1, <2>2
<1>3. CASE k = 3
  <2>1. Migrated(k, c, by) = Narrow(c)
    BY <1>3 DEF Migrated
  <2>2. Narrow(c) \in Catalogue
    <3>1. Narrow(c).acl \subseteq c.acl \cup
            {[to |-> "runtime", privilege |-> Of(col)] : col \in {"status", "updated_at"}}
      BY DEF Narrow, Catalogue
    <3>2. Narrow(c).acl \subseteq Grant
      BY <3>1, RolesApart, GrantsAreTyped DEF Catalogue
    <3>3. Narrow(c) = [c EXCEPT !.acl = Narrow(c).acl]
      BY DEF Narrow, Catalogue
    <3> QED BY <3>2, <3>3 DEF Catalogue
  <2> QED BY <2>1, <2>2
<1> QED BY <1>1, <1>2, <1>3

\* So does a transaction of several.
LEMMA AfterIsTyped ==
  ASSUME NEW c \in Catalogue, NEW by \in Role, NEW from \in 0 .. 3, NEW to \in 0 .. 3,
         from < to
  PROVE  After(c, by, from, to)[to] \in Catalogue
<1> DEFINE a == After(c, by, from, to)
<1>1. \A k \in from .. to : a[k] = IF k = from THEN c ELSE Migrated(k, a[k - 1], by)
  BY AfterIs
<1> HIDE DEF a
<1>2. a[from] \in Catalogue
  BY <1>1
<1>3. ASSUME NEW k \in from .. to, k # from, a[k - 1] \in Catalogue PROVE a[k] \in Catalogue
  <2>1. a[k] = Migrated(k, a[k - 1], by)
    BY <1>1, <1>3
  <2>2. k \in 1 .. 3
    BY <1>3
  <2> QED BY <1>3, <2>1, <2>2, MigratedIsTyped
<1>4. a[from + 1] \in Catalogue
  BY <1>2, <1>3
<1>5. to > from + 1 => a[from + 2] \in Catalogue
  BY <1>3, <1>4
<1>6. to > from + 2 => a[from + 3] \in Catalogue
  BY <1>3, <1>5
<1> QED BY <1>4, <1>5, <1>6 DEF a

\* What an operator does leaves a catalogue.
LEMMA ActedIsTyped ==
  ASSUME NEW c \in Catalogue, NEW a \in Acts
  PROVE  Acted(c, a) \in Catalogue
<1> USE RolesAssumption
<1>1. CASE a \in [act : {"grant", "revoke"}, grant : Grant]
  BY <1>1 DEF Acted, Catalogue
<1>2. CASE a \in [act : {"join", "leave"}, edge : Edge]
  BY <1>2 DEF Acted, Catalogue
<1>3. CASE a \in [act : {"raise"}, role : Role, attribute : Attribute]
  BY <1>3 DEF Acted, Catalogue
<1>4. CASE a \in [act : {"hand"}, object : Object, role : Role]
  BY <1>4 DEF Acted, Given, Catalogue
<1>5. CASE a \in [act : {"switch"}]
  BY <1>5 DEF Acted, Catalogue
<1> QED BY <1>1, <1>2, <1>3, <1>4, <1>5 DEF Act

\* A session runs as a role.
LEMMA EffectiveIsARole ==
  ASSUME NEW c, NEW r \in Role
  PROVE  Effective(c, r) \in Role
BY RolesApart DEF Effective

\* Whoever changes the catalogue disturbs the server that is asking it.
LEMMA DisturbedIsQuiet ==
  ASSUME RolesInv, server' = Disturbed
  PROVE  /\ server' \in {Down} \cup Asking \cup Up
         /\ ~(server'.at = "asking" /\ server'.quiet)
<1>1. CASE server \in Asking
  BY <1>1 DEF Disturbed, Asking
<1>2. CASE server \in {Down} \cup Up
  BY <1>2 DEF Disturbed, Down, Up
<1> QED BY <1>1, <1>2 DEF RolesInv, RolesTypeOK

\* Migrations leave a catalogue, and a server that is being asked is disturbed by them.
LEMMA MigrateKeeps ==
  ASSUME RolesInv, NEW user \in Role, NEW to \in 1 .. 3, Migrate(user, to)
  PROVE  /\ cat' \in Catalogue /\ stage' \in 0 .. 3
         /\ server' \in {Down} \cup Asking \cup Up /\ ToldIsSo'
<1>1. cat \in Catalogue /\ stage \in 0 .. 3 /\ stage < to
  BY DEF RolesInv, RolesTypeOK, Migrate
<1>2. Effective(cat, user) \in Role
  BY EffectiveIsARole
<1>3. cat' \in Catalogue
  BY <1>1, <1>2, AfterIsTyped DEF Migrate
<1>4. server' \in {Down} \cup Asking \cup Up /\ ~(server'.at = "asking" /\ server'.quiet)
  BY DisturbedIsQuiet DEF Migrate
<1>5. stage' \in 0 .. 3
  BY DEF Migrate
<1> QED BY <1>3, <1>4, <1>5 DEF ToldIsSo

\* It holds of the container before anything has been run.
LEMMA InitInv == RolesInit => RolesInv
<1> SUFFICES ASSUME RolesInit PROVE RolesInv
  OBVIOUS
<1>1. cat \in Catalogue
  <2>1. {"trustpass"} \cup Group \subseteq Role
    BY DEF Role
  <2> QED BY <2>1 DEF RolesInit, Catalogue
<1>2. RolesTypeOK
  BY <1>1, RolesAssumption DEF RolesInit, RolesTypeOK, Source, Passworded
<1>3. GiverIsHome /\ ToldIsSo
  BY DEF RolesInit, GiverIsHome, ToldIsSo, Quiet, Down
<1> QED BY <1>2, <1>3 DEF RolesInv

\* A deployment migrates.
LEMMA DeployKeeps == RolesInv /\ Deploy => RolesInv'
<1> SUFFICES ASSUME RolesInv, Deploy PROVE RolesInv'
  OBVIOUS
<1>1. PICK user \in Role, to \in 1 .. 3 : Migrate(user, to)
  BY DEF Deploy
<1>2. RolesTypeOK'
  BY <1>1, MigrateKeeps DEF RolesInv, RolesTypeOK, Deploy
<1>3. GiverIsHome'
  BY DEF RolesInv, GiverIsHome, Deploy
<1> QED BY <1>1, <1>2, <1>3, MigrateKeeps DEF RolesInv

\* An operator does what an operator may.
LEMMA OperateKeeps == RolesInv /\ Operate => RolesInv'
<1> SUFFICES ASSUME RolesInv, Operate PROVE RolesInv'
  OBVIOUS
<1>1. cat' \in Catalogue
  BY ActedIsTyped DEF Operate, RolesInv, RolesTypeOK
<1>2. server' \in {Down} \cup Asking \cup Up /\ ~(server'.at = "asking" /\ server'.quiet)
  BY DisturbedIsQuiet DEF Operate
<1>3. RolesTypeOK'
  <2>1. budget' \in 0 .. Budget
    BY RolesAssumption DEF Operate, RolesInv, RolesTypeOK
  <2> QED BY <1>1, <1>2, <2>1 DEF RolesInv, RolesTypeOK, Operate
<1>4. GiverIsHome'
  BY DEF RolesInv, GiverIsHome, Operate
<1> QED BY <1>2, <1>3, <1>4 DEF RolesInv, ToldIsSo

\* The server's own steps change only what it knows.
ServerStep == Start \/ AskRole \/ AskEntry \/ Serve \/ Stop

\* A server is down, asking, or up.
LEMMA ServerIsTyped ==
  ASSUME RolesInv, ServerStep
  PROVE  server' \in {Down} \cup Asking \cup Up
<1> USE DEF Down, Asking, Up
<1>0. server \in {Down} \cup Asking \cup Up
  BY DEF RolesInv, RolesTypeOK
<1>1. CASE Start
  BY <1>1 DEF Start
<1>2. CASE AskRole
  <2> DEFINE fails == RoleFails(cat, Effective(cat, server.user))
  <2>1. fails \in BOOLEAN
    BY DEF RoleFails
  <2>2. server \in Asking
    BY <1>0, <1>2 DEF AskRole
  <2>3. server' = [server EXCEPT !.at = "asking", !.left = Window, !.failed = fails]
    BY <1>2 DEF AskRole
  <2> HIDE DEF fails
  <2> QED BY <2>1, <2>2, <2>3
<1>3. CASE AskEntry
  <2> DEFINE fails(p) == server.failed \/ EntryFails(cat, Effective(cat, server.user), p)
  <2>1. PICK p \in server.left :
          server' = [server EXCEPT !.failed = fails(p), !.left = @ \ {p}]
    BY <1>3 DEF AskEntry
  <2>2. server \in Asking
    BY <1>0, <1>3 DEF AskEntry
  <2>3. fails(p) \in BOOLEAN
    OBVIOUS
  <2> HIDE DEF fails
  <2> QED BY <2>1, <2>2, <2>3
<1>4. CASE Serve
  BY <1>0, <1>4 DEF Serve
<1>5. CASE Stop
  BY <1>5 DEF Stop
<1> QED BY <1>1, <1>2, <1>3, <1>4, <1>5 DEF ServerStep

\* A server starts, asks and serves: each answer it notes is so.
LEMMA ServerKeeps == RolesInv /\ ServerStep => RolesInv'
<1> SUFFICES ASSUME RolesInv, ServerStep PROVE RolesInv'
  OBVIOUS
<1>1. UNCHANGED <<cat, stage, password, ports, atHome, giver, setup>> /\ budget' \in {budget, budget - 1}
      /\ (budget' # budget => budget > 0)
  BY DEF ServerStep, Start, AskRole, AskEntry, Serve, Stop
<1>2. RolesTypeOK'
  <2>1. budget' \in 0 .. Budget
    BY <1>1, RolesAssumption DEF RolesInv, RolesTypeOK
  <2> QED BY <1>1, <2>1, ServerIsTyped DEF RolesInv, RolesTypeOK
<1>3. GiverIsHome'
  BY <1>1 DEF RolesInv, GiverIsHome
<1>4. ToldIsSo'
  <2> DEFINE eff == Effective(cat, server.user)
  <2>0. server \in {Down} \cup Asking \cup Up
    BY DEF RolesInv, RolesTypeOK
  <2>1. CASE Start
    BY <2>1 DEF Start, ToldIsSo
  <2>2. CASE AskRole
    <3>1. server' = [server EXCEPT !.at = "asking", !.left = Window, !.failed = RoleFails(cat, eff)]
          /\ server \in Asking
      BY <2>0, <2>2 DEF AskRole, Down, Up
    <3>2. server'.user = server.user /\ server'.left = Window /\ server'.failed = RoleFails(cat, eff)
      BY <3>1 DEF Asking
    <3> QED BY <1>1, <3>2 DEF ToldIsSo
  <2>3. CASE AskEntry
    <3>1. PICK p \in server.left :
            server' = [server EXCEPT !.failed = @ \/ EntryFails(cat, eff, p), !.left = @ \ {p}]
      BY <2>3 DEF AskEntry
    <3>2. server \in Asking /\ server.at = "asking"
      BY <2>0, <2>3 DEF AskEntry, Down, Up
    <3>3. /\ server'.user = server.user /\ server'.left = server.left \ {p}
          /\ server'.failed = (server.failed \/ EntryFails(cat, eff, p))
          /\ server'.quiet = server.quiet /\ server'.at = server.at
      BY <3>1, <3>2 DEF Asking
    <3> QED BY <1>1, <3>2, <3>3 DEF RolesInv, ToldIsSo
  <2>4. CASE Serve
    BY <2>4 DEF Serve, ToldIsSo
  <2>5. CASE Stop
    BY <2>5 DEF Stop, Down, ToldIsSo
  <2> QED BY <2>1, <2>2, <2>3, <2>4, <2>5 DEF ServerStep
<1> QED BY <1>2, <1>3, <1>4 DEF RolesInv

-----------------------------------------------------------------------------
(***************************************************************************)
(* Passwords.                                                              *)
(***************************************************************************)

\* Compose publishes 5433 or nothing, and only while the container runs.
LEMMA OnlyThatPortIsPublished ==
  ASSUME NEW requested, NEW url, NEW ps \in Answers, MayUseLocalDevPasswords(requested, url, ps)
  PROVE  url.host = "localhost" /\ PortOf(url) = "5433" /\ ports["5433"] = "compose"
<1>1. PICK port \in PublishedPorts(ps) : port = PortOf(url)
  BY DEF MayUseLocalDevPasswords
<1>2. ps # Unanswered
  BY DEF MayUseLocalDevPasswords
<1>3. ps = {[state |-> IF ports["5433"] = "compose" THEN "running" ELSE "exited",
             protocol |-> "tcp", port |-> "5433"]}
  BY <1>2 DEF Answers
<1>4. port = "5433" /\ ports["5433"] = "compose"
  BY <1>1, <1>3 DEF PublishedPorts
<1> QED BY <1>1, <1>4 DEF MayUseLocalDevPasswords

\* What is decided is typed, and home unless no variable is missing.
LEMMA DecidedWell ==
  ASSUME RolesInv, NEW requested, NEW url \in Url, NEW env \in [Passworded -> Variable],
         Decide(requested, url, env), UNCHANGED <<ports, atHome>>
  PROVE  giver' \in Giving /\ budget' \in 0 .. Budget /\ GiverIsHome'
<1>1. PICK ps \in Answers :
        /\ Missing(env) = {} \/ MayUseLocalDevPasswords(requested, url, ps)
        /\ giver' = [at |-> "allowed", url |-> url, env |-> env, undisturbed |-> TRUE]
  BY DEF Decide
<1>2. giver' \in Giving
  BY <1>1 DEF Giving
<1>3. budget' \in 0 .. Budget
  BY RolesAssumption DEF Decide, RolesInv, RolesTypeOK
<1>4. Missing(env) # {} => url.host = "localhost" /\ url.port = "5433" /\ ports["5433"] = "compose"
  BY <1>1, OnlyThatPortIsPublished DEF PortOf
<1>5. GiverIsHome'
  BY <1>1, <1>4 DEF GiverIsHome
<1> QED BY <1>2, <1>3, <1>5

\* The script decides whom it may give passwords, by the container that answers or not.
LEMMA ProvisionKeeps == RolesInv /\ Provision => RolesInv'
<1> SUFFICES ASSUME RolesInv, Provision PROVE RolesInv'
  OBVIOUS
<1>1. PICK requested \in BOOLEAN, url \in Urls, env \in [Passworded -> Variable] : Decide(requested, url, env)
  BY DEF Provision
<1>2. UNCHANGED <<cat, stage, password, server, ports, atHome, setup>>
  BY DEF Provision
<1>3. giver' \in Giving /\ budget' \in 0 .. Budget /\ GiverIsHome'
  BY <1>1, <1>2, DecidedWell, RolesAssumption
<1>4. RolesTypeOK'
  BY <1>2, <1>3 DEF RolesInv, RolesTypeOK
<1>5. ToldIsSo'
  BY <1>2 DEF RolesInv, ToldIsSo
<1> QED BY <1>3, <1>4, <1>5 DEF RolesInv

\* It connects where its URL leads: home, if nobody disturbed the port since.
LEMMA ConnectKeeps == RolesInv /\ Connect => RolesInv'
<1> SUFFICES ASSUME RolesInv, Connect PROVE RolesInv'
  OBVIOUS
<1>1. giver \in Giving /\ giver.at = "allowed"
  BY DEF RolesInv, RolesTypeOK, Connect, Quiet
<1>2. giver' = [giver EXCEPT !.at = "connected"] /\ Reaches(giver.url)
      /\ UNCHANGED <<cat, stage, password, server, ports, atHome, setup, budget>>
  BY DEF Connect
<1>3. giver' \in Giving /\ giver'.env = giver.env /\ giver'.undisturbed = giver.undisturbed
      /\ giver'.at = "connected"
  BY <1>1, <1>2 DEF Giving
<1>4. RolesTypeOK'
  BY <1>2, <1>3 DEF RolesInv, RolesTypeOK
<1>5. giver # Quiet
  BY <1>1 DEF Quiet
<1>6. (giver.undisturbed /\ Missing(giver.env) # {}) => atHome
  <2> SUFFICES ASSUME giver.undisturbed, Missing(giver.env) # {} PROVE atHome
    OBVIOUS
  <2>1. giver.url.host = "localhost" /\ giver.url.port = "5433" /\ ports["5433"] = "compose"
    BY <1>1, <1>5 DEF RolesInv, GiverIsHome
  <2> QED BY <1>2, <2>1 DEF Reaches
<1>7. GiverIsHome'
  BY <1>2, <1>3, <1>6 DEF GiverIsHome
<1>8. ToldIsSo'
  BY <1>2 DEF RolesInv, ToldIsSo
<1> QED BY <1>4, <1>7, <1>8 DEF RolesInv

\* It gives the first password.
LEMMA GiveFirstKeeps == RolesInv /\ GiveFirst => RolesInv'
<1> SUFFICES ASSUME RolesInv, GiveFirst PROVE RolesInv'
  OBVIOUS
<1>1. giver \in Giving /\ giver.at = "connected" /\ giver # Quiet
  BY DEF RolesInv, RolesTypeOK, GiveFirst, Quiet
<1>2. giver' = [giver EXCEPT !.at = "first"]
      /\ UNCHANGED <<cat, stage, password, server, ports, atHome, setup, budget>>
  BY DEF GiveFirst
<1>3. giver' \in Giving /\ giver'.env = giver.env /\ giver'.undisturbed = giver.undisturbed
      /\ giver'.at = "first"
  BY <1>1, <1>2 DEF Giving
<1>4. RolesTypeOK'
  BY <1>2, <1>3 DEF RolesInv, RolesTypeOK
<1>5. GiverIsHome'
  BY <1>1, <1>2, <1>3 DEF RolesInv, GiverIsHome
<1>6. ToldIsSo'
  BY <1>2 DEF RolesInv, ToldIsSo
<1> QED BY <1>4, <1>5, <1>6 DEF RolesInv

\* And the second.
LEMMA GiveSecondKeeps == RolesInv /\ GiveSecond => RolesInv'
<1> SUFFICES ASSUME RolesInv, GiveSecond PROVE RolesInv'
  OBVIOUS
<1>1. giver' = Quiet /\ UNCHANGED <<cat, stage, server, ports, atHome, budget>>
  BY DEF GiveSecond
<1>2. /\ password' \in [Passworded -> Source]
      /\ password'["migration"] # "none" /\ password'["runtime"] # "none"
  BY DEF GiveSecond, WordOf, Source, Passworded
<1>3. setup' \in {"ready", setup}
  BY DEF GiveSecond
<1>4. RolesTypeOK'
  BY <1>1, <1>2, <1>3 DEF RolesInv, RolesTypeOK
<1>5. GiverIsHome' /\ ToldIsSo'
  BY <1>1 DEF RolesInv, GiverIsHome, ToldIsSo
<1> QED BY <1>4, <1>5 DEF RolesInv

\* It fails, and gives none.
LEMMA GiveUpKeeps == RolesInv /\ GiveUp => RolesInv'
<1> SUFFICES ASSUME RolesInv, GiveUp PROVE RolesInv'
  OBVIOUS
<1>1. giver' = Quiet /\ UNCHANGED <<cat, stage, password, server, ports, atHome, budget>>
  BY DEF GiveUp
<1>2. setup' \in {"failed", setup}
  BY DEF GiveUp
<1>3. RolesTypeOK'
  BY <1>1, <1>2 DEF RolesInv, RolesTypeOK
<1>4. GiverIsHome' /\ ToldIsSo'
  BY <1>1 DEF RolesInv, GiverIsHome, ToldIsSo
<1> QED BY <1>3, <1>4 DEF RolesInv

\* A port changes hands, and disturbs a script that relies on it.
LEMMA RebindKeeps == RolesInv /\ Rebind => RolesInv'
<1> SUFFICES ASSUME RolesInv, Rebind PROVE RolesInv'
  OBVIOUS
<1>1. UNCHANGED <<cat, stage, password, server, atHome, setup>>
  BY DEF Rebind
<1>2. budget' \in 0 .. Budget
  BY RolesAssumption DEF Rebind, RolesInv, RolesTypeOK
<1>3. ports' \in [Port -> {"nobody", "compose", "tunnel"}]
  BY DEF Rebind, RolesInv, RolesTypeOK
<1>4. giver' \in {Quiet} \cup Giving
  BY DEF Rebind, RolesInv, RolesTypeOK, Giving, Quiet
<1>5. RolesTypeOK'
  BY <1>1, <1>2, <1>3, <1>4 DEF RolesInv, RolesTypeOK
<1>6. GiverIsHome'
  <2>1. CASE giver.at = "allowed"
    <3>1. giver \in Giving
      BY <2>1 DEF RolesInv, RolesTypeOK, Quiet
    <3>2. ~giver'.undisturbed
      BY <2>1, <3>1 DEF Rebind, Giving
    <3> QED BY <3>2 DEF GiverIsHome
  <2>2. CASE giver.at # "allowed"
    <3>1. giver' = giver
      BY <2>2 DEF Rebind
    <3> QED BY <1>1, <2>2, <3>1 DEF RolesInv, GiverIsHome
  <2> QED BY <2>1, <2>2
<1>7. ToldIsSo'
  BY <1>1 DEF RolesInv, ToldIsSo
<1> QED BY <1>5, <1>6, <1>7 DEF RolesInv

-----------------------------------------------------------------------------
(***************************************************************************)
(* db:setup.                                                               *)
(***************************************************************************)

\* Setup asks first whether the container is there.
LEMMA SetupAsksKeeps == RolesInv /\ SetupAsks => RolesInv'
<1> SUFFICES ASSUME RolesInv, SetupAsks PROVE RolesInv'
  OBVIOUS
<1>1. UNCHANGED <<cat, stage, password, server, ports, atHome, giver>>
      /\ setup' \in {"allowed", "refused"}
  BY DEF SetupAsks
<1>2. budget' \in 0 .. Budget
  BY RolesAssumption DEF SetupAsks, RolesInv, RolesTypeOK
<1>3. RolesTypeOK'
  BY <1>1, <1>2 DEF RolesInv, RolesTypeOK
<1>4. GiverIsHome' /\ ToldIsSo'
  BY <1>1 DEF RolesInv, GiverIsHome, ToldIsSo
<1> QED BY <1>3, <1>4 DEF RolesInv

\* The container is started where it ran already, or where nobody had been told of it.
LEMMA SetupStartsKeeps == RolesInv /\ SetupStarts => RolesInv'
<1> SUFFICES ASSUME RolesInv, SetupStarts PROVE RolesInv'
  OBVIOUS
<1>1. UNCHANGED <<cat, stage, password, server, atHome, giver, budget>>
      /\ setup' \in {"started", "failed"}
  BY DEF SetupStarts
<1>2. ports' = [ports EXCEPT !["5433"] = "compose"] \/ ports' = ports
  BY DEF SetupStarts
<1>3. ports' \in [Port -> {"nobody", "compose", "tunnel"}]
      /\ (ports["5433"] = "compose" => ports'["5433"] = "compose")
  BY <1>2 DEF RolesInv, RolesTypeOK, Port
<1>4. RolesTypeOK'
  BY <1>1, <1>3 DEF RolesInv, RolesTypeOK
<1>5. GiverIsHome' /\ ToldIsSo'
  BY <1>1, <1>3 DEF RolesInv, GiverIsHome, ToldIsSo
<1> QED BY <1>4, <1>5 DEF RolesInv

\* It migrates as the superuser of its own container.
LEMMA SetupMigratesKeeps == RolesInv /\ SetupMigrates => RolesInv'
<1> SUFFICES ASSUME RolesInv, SetupMigrates PROVE RolesInv'
  OBVIOUS
<1>1. UNCHANGED <<password, ports, atHome, giver, budget>> /\ setup' \in {"migrated", "failed"}
  BY DEF SetupMigrates
<1>2. /\ cat' \in Catalogue /\ stage' \in 0 .. 3
      /\ server' \in {Down} \cup Asking \cup Up /\ ToldIsSo'
  <2>1. CASE UNCHANGED <<cat, stage, server>>
    BY <2>1 DEF RolesInv, RolesTypeOK, ToldIsSo
  <2>2. CASE Migrate("trustpass", 3)
    <3>1. "trustpass" \in Role
      BY RolesApart
    <3> QED BY <2>2, <3>1, MigrateKeeps
  <2> QED BY <2>1, <2>2 DEF SetupMigrates
<1>3. RolesTypeOK'
  BY <1>1, <1>2 DEF RolesInv, RolesTypeOK
<1>4. GiverIsHome'
  BY <1>1 DEF RolesInv, GiverIsHome
<1> QED BY <1>2, <1>3, <1>4 DEF RolesInv

\* It runs the script with a URL of its own.
LEMMA SetupProvisionsKeeps == RolesInv /\ SetupProvisions => RolesInv'
<1> SUFFICES ASSUME RolesInv, SetupProvisions PROVE RolesInv'
  OBVIOUS
<1>1. UNCHANGED <<cat, stage, password, server, ports, atHome>>
      /\ setup' \in {"provisioning", "failed"}
  BY DEF SetupProvisions
<1>2. giver' \in {Quiet} \cup Giving /\ budget' \in 0 .. Budget /\ GiverIsHome'
  <2>1. CASE UNCHANGED <<giver, budget>>
    BY <1>1, <2>1 DEF RolesInv, RolesTypeOK, GiverIsHome
  <2>2. ASSUME NEW env \in [Passworded -> Variable], Decide(TRUE, Home, env)
        PROVE  giver' \in Giving /\ budget' \in 0 .. Budget /\ GiverIsHome'
    <3>1. Home \in Url
      BY DEF Home, Url, Port
    <3> QED BY <1>1, <2>2, <3>1, DecidedWell
  <2> QED BY <2>1, <2>2 DEF SetupProvisions
<1>3. RolesTypeOK'
  BY <1>1, <1>2 DEF RolesInv, RolesTypeOK
<1>4. ToldIsSo'
  BY <1>1 DEF RolesInv, ToldIsSo
<1> QED BY <1>2, <1>3, <1>4 DEF RolesInv

\* Every step keeps the invariant.
LEMMA NextKeeps == RolesInv /\ [RolesNext]_vars => RolesInv'
<1>1. RolesInv /\ UNCHANGED vars => RolesInv'
  BY DEF vars, RolesInv, RolesTypeOK, GiverIsHome, ToldIsSo
<1> QED
  BY <1>1, DeployKeeps, OperateKeeps, ServerKeeps, ProvisionKeeps, ConnectKeeps, GiveFirstKeeps,
     GiveSecondKeeps, GiveUpKeeps, RebindKeeps, SetupAsksKeeps, SetupStartsKeeps,
     SetupMigratesKeeps, SetupProvisionsKeeps
  DEF RolesNext, ServerStep

-----------------------------------------------------------------------------
(***************************************************************************)
(* The theorems.                                                           *)
(***************************************************************************)

\* Everything has its type, a script about to give a published password is home, and what a
\* server was told in quiet is so.
THEOREM RolesInvariance == RolesSpec => []RolesInv
<1> QED BY InitInv, NextKeeps, PTL DEF RolesSpec

\* Every catalogue is one, and both roles were altered or neither.
THEOREM RolesTypeCorrect == RolesSpec => []RolesTypeOK
<1>1. RolesInv => RolesTypeOK
  BY DEF RolesInv
<1> QED BY <1>1, RolesInvariance, PTL

\* What a role may become or inherit, it is a member of.
LEMMA WieldedIsMember ==
  ASSUME NEW c \in Catalogue, NEW r \in Role
  PROVE  Wields(c, r) \subseteq Member(c, r)
<1>1. c.member \in SUBSET Edge
  BY DEF Catalogue
<1> DEFINE sets == {e \in c.member : e.set}
           inherits == {e \in c.member : e.inherit}
<1>2. sets \in SUBSET Edge /\ inherits \in SUBSET Edge
  BY <1>1
<1>3. /\ r \in Member(c, r)
      /\ \A e \in c.member : e.to \in Member(c, r) => e.of \in Member(c, r)
  BY <1>1, OverIsClosure DEF Member
<1>4. MaySet(c, r) \subseteq Member(c, r) /\ MaySet(c, r) \subseteq Role
  <2>1. \A e \in sets : e.to \in Member(c, r) => e.of \in Member(c, r)
    BY <1>3
  <2> HIDE DEF sets
  <2>2. Over(sets, r) \subseteq Member(c, r) /\ Over(sets, r) \subseteq Role
    BY <1>2, <1>3, <2>1, OverIsClosure
  <2> QED BY <2>2 DEF MaySet, sets
<1>5. ASSUME NEW x \in MaySet(c, r)
      PROVE  Inherits(c, x) \subseteq Member(c, r)
  <2>1. \A e \in inherits : e.to \in Member(c, r) => e.of \in Member(c, r)
    BY <1>3
  <2>2. x \in Role /\ x \in Member(c, r)
    BY <1>4
  <2> HIDE DEF inherits
  <2>3. Over(inherits, x) \subseteq Member(c, r)
    BY <1>2, <2>1, <2>2, OverIsClosure
  <2> QED BY <2>3 DEF Inherits, inherits
<1> QED BY <1>5 DEF Wields

\* A role about which no question failed does none of what the questions are for.
LEMMA NotFailingIsHarmless ==
  ASSUME NEW c \in Catalogue, NEW r \in Role, ~RoleFails(c, r),
         \A p \in Window : ~EntryFails(c, r, p)
  PROVE  Harmless(c, r)
<1>1. c.attr[r] = {} /\ \A o \in Object : c.owner[o] \notin Wields(c, r)
  BY WieldedIsMember DEF RoleFails
<1>2. \A p \in Window : ~Has(c, r, p)
  BY DEF EntryFails
<1>3. /\ {Of("serial"), Of("trustpass_id"), On("lifecycle_event", "update"),
           On("lifecycle_event", "delete"), On("capacity_grant", "insert")} \subseteq Window
  BY DEF Window
<1>4. ~RewritesIdentity(c, r) /\ ~EditsHistory(c, r) /\ ~GrantsAuthority(c, r)
  BY <1>2, <1>3 DEF RewritesIdentity, EditsHistory, GrantsAuthority
<1> QED BY <1>1, <1>4 DEF Harmless

\* A server that is not forced, and was asked in quiet, serves as a role that does no such harm.
THEOREM ServesHarmless == RolesSpec => StartsHarmless
<1> DEFINE eff == Effective(cat, server.user)
           A == (server.at = "asking" /\ server'.at = "up" /\ ~server.forced /\ server.quiet)
                => /\ Harmless(cat, Effective(cat, server.user))
                   /\ Owns(cat, "owner") => Harmless(cat, server.user)
<1>1. RolesInv /\ [RolesNext]_vars => [A]_vars
  <2> SUFFICES ASSUME RolesInv, RolesNext, server.at = "asking", server'.at = "up",
                      ~server.forced, server.quiet
               PROVE  /\ Harmless(cat, eff)
                      /\ Owns(cat, "owner") => Harmless(cat, server.user)
    OBVIOUS
  <2>1. server.left = {} /\ ~server.failed
    <3>1. server' # server
      OBVIOUS
    <3>2. ~(server' = Down) /\ server'.at \notin {"asking", "connected"}
      BY DEF Down
    <3>3. server \in Asking
      BY DEF RolesInv, RolesTypeOK, Down, Up
    <3>4. ~AskRole /\ ~AskEntry /\ ~Start /\ ~Stop
      BY <3>2, <3>3 DEF AskRole, AskEntry, Start, Stop, Asking
    <3>5. server' # Disturbed
      BY <3>2, <3>3 DEF Disturbed, Asking
    <3>6. ~Deploy /\ ~Operate /\ ~SetupMigrates
      BY <3>1, <3>5 DEF Deploy, Operate, SetupMigrates, Migrate
    <3>7. Serve
      BY <3>1, <3>4, <3>6 DEF RolesNext, Provision, Connect, GiveFirst, GiveSecond, GiveUp,
                             Rebind, SetupAsks, SetupStarts, SetupProvisions
    <3> QED BY <3>7 DEF Serve
  <2>2. cat \in Catalogue /\ server.user \in Role /\ eff \in Role
    BY EffectiveIsARole DEF RolesInv, RolesTypeOK, Asking, Down, Up
  <2>3. ~RoleFails(cat, eff) /\ \A p \in Window : ~EntryFails(cat, eff, p)
    BY <2>1 DEF RolesInv, ToldIsSo
  <2>4. Harmless(cat, eff)
    BY <2>2, <2>3, NotFailingIsHarmless
  <2>5. ASSUME Owns(cat, "owner") PROVE eff = server.user
    <3>1. eff # "owner"
      <4> SUFFICES ASSUME eff = "owner" PROVE FALSE
        OBVIOUS
      <4>1. "owner" \in Member(cat, "owner")
        <5>1. cat.member \in SUBSET Edge /\ "owner" \in Role
          BY RolesApart, <2>2 DEF Catalogue
        <5> QED BY <5>1, OverIsClosure DEF Member
      <4> QED BY <2>3, <2>5, <4>1 DEF RoleFails, Owns
    <3> QED BY <3>1 DEF Effective
  <2> QED BY <2>4, <2>5
<1>2. QED
  BY <1>1, RolesInvariance, PTL DEF RolesSpec, StartsHarmless

\* Only the container's roles are given a published password.
THEOREM PublishedIsForHome == RolesSpec => PublishedStaysHome
<1> DEFINE A == (password' # password /\ giver.undisturbed)
                => (atHome \/ \A r \in DOMAIN password : password'[r] # "published")
<1>1. RolesInv /\ [RolesNext]_vars => [A]_vars
  <2> SUFFICES ASSUME RolesInv, RolesNext, password' # password, giver.undisturbed
               PROVE  atHome \/ \A r \in DOMAIN password : password'[r] # "published"
    OBVIOUS
  <2>1. GiveSecond
    BY DEF RolesNext, Deploy, Operate, Start, AskRole, AskEntry, Serve, Stop, Provision, Connect,
           GiveFirst, GiveUp, Rebind, SetupAsks, SetupStarts, SetupMigrates, SetupProvisions
  <2>2. giver \in Giving /\ giver.at = "first" /\ giver # Quiet
    BY <2>1 DEF GiveSecond, RolesInv, RolesTypeOK, Quiet
  <2>3. DOMAIN password = Passworded
    BY DEF RolesInv, RolesTypeOK
  <2>4. CASE Missing(giver.env) # {}
    BY <2>2, <2>4 DEF RolesInv, GiverIsHome
  <2>5. CASE Missing(giver.env) = {}
    BY <2>1, <2>2, <2>3, <2>5 DEF GiveSecond, WordOf, Missing, Giving
  <2> QED BY <2>4, <2>5
<1>2. QED
  BY <1>1, RolesInvariance, PTL DEF RolesSpec, PublishedStaysHome
=============================================================================
