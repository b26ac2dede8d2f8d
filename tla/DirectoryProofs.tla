--------------------------- MODULE DirectoryProofs ---------------------------
(***************************************************************************)
(* What a request has checked inside its block is still true when it       *)
(* commits, so the names that come and go are those in the audit log: for  *)
(* any number of requests, users and groups.                               *)
(***************************************************************************)
EXTENDS Directory, FiniteSetTheorems, TLAPS

Name == User \cup Group

\* What a request asks for and the names it keeps to itself, before and after
\* it has its locks.
Shape(j) ==
  /\ j.locks \subseteq Name
  /\ \/ /\ j.op = "create"
        /\ j.req \in [user : User, groups : SUBSET Group]
        /\ {j.req.user} \cup j.req.groups \subseteq j.locks
     \/ /\ j.op = "update"
        /\ j.req \in [user : User, to : User \cup {None}, groups : SUBSET Group]
        /\ j.req.to # j.req.user
        /\ {j.req.user} \cup Given(j.req.to) \cup j.req.groups \subseteq j.locks
     \/ /\ j.op = "touch"
        /\ j.req \in [user : User, to : User \cup {None}]
        /\ j.req.to # j.req.user
        /\ {j.req.user} \cup Given(j.req.to) \subseteq j.locks
     \/ /\ j.op = "delete"
        /\ j.req \in [user : User]
        /\ j.req.user \in j.locks
     \/ /\ j.op = "group_update"
        /\ j.req \in [group : Group, to : Group \cup {None}, edit : Edits]
        /\ j.req.to # j.req.group
        /\ {j.req.group} \cup Given(j.req.to) \subseteq j.locks
        /\ j.plan \subseteq Table
     \/ /\ j.op \in {"group_create", "group_delete", "add", "remove"}
        /\ j.req \in [group : Group]
        /\ j.req.group \in j.locks
        /\ j.op = "group_create" => j.plan \in (SUBSET Table) \ {{}}
        /\ j.op \in {"add", "remove"} => j.plan \subseteq j.locks \cap User

\* What it has found in its block, of a user ...
UserChecked(j) ==
  LET u == j.req.user IN
    /\ j.op = "create" => ~UserExists(u) /\ \A g \in j.req.groups : GroupExists(g)
    /\ j.op \in {"update", "touch", "delete"} => UserExists(u)
    /\ j.op \in {"update", "touch"} /\ j.req.to # None => ~UserExists(j.req.to)
    /\ j.op = "update" => MayReplace(u, j.req.groups, j.locks)
    /\ j.op = "delete" => /\ Groups(u) \subseteq j.locks
                          /\ j.plan = {g \in Groups(u) : LastMembership(g, u)}

\* ... and of a group.
GroupChecked(j) ==
  LET g == j.req.group IN
    /\ j.op = "group_create" => ~GroupExists(g)
    /\ j.op \in {"group_update", "group_delete", "add"} => GroupExists(g)
    /\ j.op = "group_update" =>
         /\ j.req.to # None => ~GroupExists(j.req.to)
         /\ j.plan = After(j.req.edit, attrs[g])
         /\ j.plan # {} \/ Members(g) # {}
    /\ j.op = "add" => (\A u \in j.plan : UserExists(u)) /\ j.plan \cap Members(g) = {}
    /\ j.op = "remove" => attrs[g] # {} \/ ~(Members(g) \subseteq j.plan)

\* A user who is a member of a group has rows of its own.
MembersKnown == \A u \in User : Groups(u) # {} => u \in known

DbTypes ==
  /\ known \subseteq User
  /\ attrs \in [Group -> SUBSET Table]
  /\ rows \in [Pair -> Nat]

Jobs == {job[p] : p \in Proc}

JobShape ==
  /\ job = [p \in Proc |-> job[p]]
  /\ \A j \in Jobs : j # Idle => j.stage \in {"lock", "write"} /\ Shape(j)

Exclusive ==
  \A p, q \in Proc :
    p # q /\ job[p].stage = "write" /\ job[q].stage = "write"
      => job[p].locks \cap job[q].locks = {}

StillTrue ==
  \A j \in Jobs : j.stage = "write" => UserChecked(j) /\ GroupChecked(j)

IInv == DbTypes /\ MembersKnown /\ JobShape /\ Exclusive /\ StillTrue

-----------------------------------------------------------------------------
\* What a commit may do to names it has not locked: nothing.  The users it has
\* locked stay members of another's group as a whole, and it puts no user of
\* another request into the groups it has locked.
Frame(L) ==
  /\ \A g \in Group \ L : attrs'[g] = attrs[g]
  /\ \A u \in User \ L : u \in known' <=> u \in known
  /\ \A u \in User \ L, g \in Group \ L : rows'[<<u, g>>] = rows[<<u, g>>]
  /\ \A g \in Group \ L :
       (\E u \in User \cap L : rows'[<<u, g>>] > 0) <=> (\E u \in User \cap L : rows[<<u, g>>] > 0)
  /\ \A u \in User \ L :
       (\E g \in Group \cap L : rows'[<<u, g>>] > 0) => (\E g \in Group \cap L : rows[<<u, g>>] > 0)

\* The entries a commit writes are what has come and gone.
Logged(j) ==
  /\ ExistingGroups' \ ExistingGroups = Came(j) \cap Group
  /\ ExistingGroups \ ExistingGroups' = Went(j) \cap Group
  /\ ExistingUsers' \ ExistingUsers = Came(j) \cap User
  /\ ExistingUsers \ ExistingUsers' = Went(j) \cap User

\* Memberships with several rows had as many before, under their own or under
\* an older name f, and no two of them stem from the same one.
Inherited ==
  \E f \in [Pair -> Pair] :
    /\ \A x, y \in Pair : rows'[x] > 1 /\ rows'[y] > 1 /\ f[x] = f[y] => x = y
    /\ \A x \in Pair : rows'[x] > 1 => rows[f[x]] = rows'[x]

CommitKeeps(j) ==
  DbTypes' /\ MembersKnown' /\ Frame(j.locks) /\ Logged(j) /\ Inherited

(* Duplicates that stay where they are, and duplicates under a new name.    *)
LEMMA InheritedBy ==
  ASSUME NEW f \in [Pair -> Pair],
         \A u, v \in User, g, h \in Group :
           rows'[<<u, g>>] > 1 /\ rows'[<<v, h>>] > 1 /\ f[<<u, g>>] = f[<<v, h>>]
             => u = v /\ g = h,
         \A u \in User, g \in Group : rows'[<<u, g>>] > 1 => rows[f[<<u, g>>]] = rows'[<<u, g>>]
  PROVE  Inherited
<1>1. \A x \in Pair : \E u \in User, g \in Group : x = <<u, g>>
  BY DEF Pair
<1>. QED  BY <1>1 DEF Inherited

LEMMA InheritedInPlace ==
  ASSUME \A u \in User, g \in Group : rows'[<<u, g>>] > 1 => rows[<<u, g>>] = rows'[<<u, g>>]
  PROVE  Inherited
<1>. DEFINE f == [x \in Pair |-> x]
<1>1. f \in [Pair -> Pair] /\ \A u \in User, g \in Group : f[<<u, g>>] = <<u, g>>
  BY DEF Pair
<1>. HIDE DEF f
<1>. QED  BY <1>1, InheritedBy

\* Where members are known, a user exists if it has rows of its own.
LEMMA ExistsMeansKnown ==
  ASSUME MembersKnown, NEW u \in User
  PROVE  UserExists(u) <=> u \in known
BY DEF MembersKnown, UserExists

LEMMA RowsTyped ==
  ASSUME DbTypes, NEW u \in User, NEW g \in Group
  PROVE  rows[<<u, g>>] \in Nat
BY DEF DbTypes, Pair

LEMMA ExistingAreKnown == DbTypes /\ MembersKnown => ExistingUsers = known
BY ExistsMeansKnown DEF ExistingUsers, DbTypes

\* Who a group's members are, in terms of rows.
LEMMA GroupExistsByRows ==
  ASSUME NEW g \in Group
  PROVE  GroupExists(g) <=> attrs[g] # {} \/ \E u \in User : rows[<<u, g>>] > 0
BY DEF GroupExists, Members

LEMMA GroupExistsByRowsNext ==
  ASSUME NEW g \in Group
  PROVE  GroupExists(g)' <=> attrs'[g] # {} \/ \E u \in User : rows'[<<u, g>>] > 0
BY DEF GroupExists, Members

LEMMA ExistingAreKnownNext == DbTypes' /\ MembersKnown' => ExistingUsers' = known'
BY DEF ExistingUsers, DbTypes, MembersKnown, UserExists

LEMMA LastMembershipByRows ==
  ASSUME NEW u \in User, NEW g \in Group
  PROVE  LastMembership(g, u) <=>
           /\ attrs[g] = {} /\ rows[<<u, g>>] > 0
           /\ \A w \in User \ {u} : ~(rows[<<w, g>>] > 0)
BY DEF LastMembership, Members

(* create(): the user comes, its groups were there.                         *)
LEMMA CreateKeeps ==
  ASSUME DbTypes, MembersKnown, NEW p \in Proc, NEW j, j = job[p],
         Shape(j), UserChecked(j), CommitCreate(p)
  PROVE  CommitKeeps(j)
<1> DEFINE u  == j.req.user
           gs == j.req.groups
<1>1. /\ j.op = "create" /\ u \in User /\ gs \subseteq Group
      /\ {u} \cup gs \subseteq j.locks
      /\ Came(j) = {u} /\ Went(j) = {}
  BY DEF CommitCreate, Writing, Shape, Came, Went, Renames
<1>0. \A w \in User, g \in Group : rows[<<w, g>>] \in Nat
  BY RowsTyped
<1>2. /\ u \notin known /\ \A g \in Group : rows[<<u, g>>] = 0
      /\ \A g \in gs : GroupExists(g)
  <2>1. ~UserExists(u) /\ \A g \in gs : GroupExists(g)
    BY <1>1 DEF UserChecked
  <2>. QED  BY <1>0, <1>1, <2>1 DEF UserExists, Groups
<1>3. /\ known' = known \cup {u} /\ attrs' = attrs
      /\ rows' \in [Pair -> Nat]
      /\ \A g \in gs : rows'[<<u, g>>] = 1
      /\ \A g \in Group \ gs : rows'[<<u, g>>] = 0
      /\ \A w \in User \ {u}, g \in Group : rows'[<<w, g>>] = rows[<<w, g>>]
  BY <1>1 DEF CommitCreate, Replaced, DbTypes, Pair
<1> HIDE DEF u, gs
<1>4. DbTypes' /\ MembersKnown'
  BY <1>1, <1>3 DEF DbTypes, MembersKnown, Groups
<1>5. Frame(j.locks)
  <2>1. \A g \in Group \ j.locks : g \notin gs
    BY <1>1
  <2>2. \A w \in User, g \in Group \ j.locks : rows'[<<w, g>>] > 0 <=> rows[<<w, g>>] > 0
    BY <1>2, <1>3, <2>1
  <2>3. \A w \in User \ j.locks, g \in Group : rows'[<<w, g>>] = rows[<<w, g>>]
    BY <1>1, <1>3
  <2>4. ASSUME NEW g \in Group \ j.locks
        PROVE  (\E w \in User \cap j.locks : rows'[<<w, g>>] > 0)
                 <=> (\E w \in User \cap j.locks : rows[<<w, g>>] > 0)
    BY <2>2
  <2>5. ASSUME NEW w \in User \ j.locks, NEW g \in Group \cap j.locks, rows'[<<w, g>>] > 0
        PROVE  rows[<<w, g>>] > 0
    BY <2>3, <2>5
  <2>. QED  BY <1>1, <1>3, <2>3, <2>4, <2>5 DEF Frame
<1>6. ASSUME NEW g \in Group PROVE GroupExists(g)' <=> GroupExists(g)
  <2>1. CASE g \in gs
    <3>1. rows'[<<u, g>>] > 0
      BY <1>1, <1>3, <2>1
    <3>. QED  BY <1>1, <1>2, <2>1, <3>1, GroupExistsByRowsNext
  <2>2. CASE g \notin gs
    <3>1. \A w \in User : rows'[<<w, g>>] > 0 <=> rows[<<w, g>>] > 0
      BY <1>2, <1>3, <2>2
    <3>. QED  BY <1>3, <3>1, GroupExistsByRows, GroupExistsByRowsNext
  <2>. QED  BY <2>1, <2>2
<1>7. ExistingGroups' = ExistingGroups
  BY <1>6 DEF ExistingGroups
<1>8. ExistingUsers = known /\ ExistingUsers' = known'
  BY <1>4, ExistingAreKnown, ExistingAreKnownNext
<1>9. Logged(j)
  BY <1>1, <1>2, <1>3, <1>7, <1>8, NamesAssumption DEF Logged
<1>10. Inherited
  <2>1. ASSUME NEW w \in User, NEW k \in Group, rows'[<<w, k>>] > 1
        PROVE  rows[<<w, k>>] = rows'[<<w, k>>]
    <3>1. w # u
      BY <1>3, <2>1
    <3>. QED  BY <1>3, <3>1
  <2>. QED  BY <2>1, InheritedInPlace
<1>. QED  BY <1>4, <1>5, <1>9, <1>10 DEF CommitKeeps

(* update() with a list of groups: the user may get another name; no group  *)
(* loses its last member.                                                   *)
LEMMA UpdateKeeps ==
  ASSUME DbTypes, MembersKnown, NEW p \in Proc, NEW j, j = job[p],
         Shape(j), UserChecked(j), CommitUpdate(p)
  PROVE  CommitKeeps(j)
<1> DEFINE u  == j.req.user
           t  == Target(j.req, u)
           gs == j.req.groups
<1>0. \A w \in User, g \in Group : rows[<<w, g>>] \in Nat
  BY RowsTyped
<1>1. /\ j.op = "update" /\ u \in User /\ t \in User /\ gs \subseteq Group
      /\ {u, t} \cup gs \subseteq j.locks
      /\ j.req.to = None <=> t = u
      /\ j.req.to # None => j.req.to = t
  BY NamesAssumption DEF CommitUpdate, Writing, Shape, Target, Given
<1>2. /\ Came(j) = IF t = u THEN {} ELSE {t}
      /\ Went(j) = IF t = u THEN {} ELSE {u}
  BY <1>1 DEF Came, Went, Renames
<1>3. /\ u \in known
      /\ \A g \in gs : GroupExists(g)
      /\ \A g \in Groups(u) \ gs : g \in j.locks /\ ~LastMembership(g, u)
      /\ t # u => ~UserExists(t)
  BY <1>1, ExistsMeansKnown DEF UserChecked, MayReplace
<1>4. t # u => t \notin known /\ \A g \in Group : rows[<<t, g>>] = 0
  BY <1>0, <1>1, <1>3 DEF UserExists, Groups
<1>5. ASSUME NEW g \in Group \ gs
      PROVE  \/ rows[<<u, g>>] = 0
             \/ /\ g \in j.locks
                /\ attrs[g] # {} \/ \E w \in User \ {u} : rows[<<w, g>>] > 0
  <2>1. CASE rows[<<u, g>>] > 0
    <3>1. g \in Groups(u) \ gs
      BY <2>1 DEF Groups
    <3>. QED  BY <1>1, <1>3, <2>1, <3>1, LastMembershipByRows
  <2>2. CASE ~(rows[<<u, g>>] > 0)
    <3>1. rows[<<u, g>>] \in Nat
      BY <1>0, <1>1
    <3>. QED  BY <2>2, <3>1
  <2>. QED  BY <2>1, <2>2
<1>6. /\ known' = (known \ {u}) \cup {t} /\ attrs' = attrs
      /\ rows' \in [Pair -> Nat]
      /\ \A g \in gs : rows'[<<t, g>>] = 1
      /\ \A g \in Group \ gs : rows'[<<t, g>>] = 0
      /\ \A w \in User \ {u, t}, g \in Group : rows'[<<w, g>>] = rows[<<w, g>>]
      /\ t # u => \A g \in Group : rows'[<<u, g>>] = 0
  <2>1. rows' = Replaced(Moved(u, j.req.to), t, gs) /\ t = Target(j.req, u)
    BY DEF CommitUpdate
  <2> DEFINE m == Moved(u, j.req.to)
  <2>2. m \in [Pair -> Nat]
    BY <1>0, <1>1 DEF Moved, DbTypes, Pair
  <2>3. /\ \A w \in User \ {u, t}, g \in Group : m[<<w, g>>] = rows[<<w, g>>]
        /\ t # u => \A g \in Group : m[<<u, g>>] = 0
    BY <1>1 DEF Moved, Pair
  <2> HIDE DEF m, u, t, gs
  <2>4. rows' = Replaced(m, t, gs)
    BY <2>1 DEF m
  <2>5. /\ rows' \in [Pair -> Nat]
        /\ \A g \in gs : rows'[<<t, g>>] = 1
        /\ \A g \in Group \ gs : rows'[<<t, g>>] = 0
        /\ \A w \in User \ {t}, g \in Group : rows'[<<w, g>>] = m[<<w, g>>]
    BY <1>1, <2>2, <2>4 DEF Replaced, Pair
  <2>6. known' = (known \ {u}) \cup {t} /\ attrs' = attrs
    BY DEF CommitUpdate, u, t
  <2>. QED  BY <1>1, <2>3, <2>5, <2>6
<1> HIDE DEF u, t, gs
<1>7. DbTypes' /\ MembersKnown'
  <2>1. DbTypes'
    BY <1>1, <1>6 DEF DbTypes
  <2>2. ASSUME NEW w \in User, NEW g \in Group, rows'[<<w, g>>] > 0
        PROVE  w \in known'
    <3>1. CASE w \notin {u, t}
      BY <1>6, <2>2, <3>1 DEF MembersKnown, Groups
    <3>2. CASE w \in {u, t}
      BY <1>6, <2>2, <3>2
    <3>. QED  BY <3>1, <3>2
  <2>. QED  BY <2>1, <2>2 DEF MembersKnown, Groups
<1>8. \A g \in Group \ gs : rows[<<u, g>>] = 0
         => \A w \in User : rows'[<<w, g>>] > 0 <=> rows[<<w, g>>] > 0
  BY <1>4, <1>6
<1>9. Frame(j.locks)
  <2>1. \A g \in Group \ j.locks : g \notin gs /\ rows[<<u, g>>] = 0
    BY <1>1, <1>5
  <2>2. \A w \in User, g \in Group \ j.locks : rows'[<<w, g>>] > 0 <=> rows[<<w, g>>] > 0
    BY <1>8, <2>1
  <2>3. \A w \in User \ j.locks, g \in Group : rows'[<<w, g>>] = rows[<<w, g>>]
    BY <1>1, <1>6
  <2>4. ASSUME NEW g \in Group \ j.locks
        PROVE  (\E w \in User \cap j.locks : rows'[<<w, g>>] > 0)
                 <=> (\E w \in User \cap j.locks : rows[<<w, g>>] > 0)
    BY <2>2
  <2>5. ASSUME NEW w \in User \ j.locks, NEW g \in Group \cap j.locks, rows'[<<w, g>>] > 0
        PROVE  rows[<<w, g>>] > 0
    BY <2>3, <2>5
  <2>. QED  BY <1>1, <1>6, <2>3, <2>4, <2>5 DEF Frame
<1>10. ASSUME NEW g \in Group PROVE GroupExists(g)' <=> GroupExists(g)
  <2>1. CASE g \in gs
    <3>1. rows'[<<t, g>>] > 0
      BY <1>6, <2>1
    <3>. QED  BY <1>1, <1>3, <2>1, <3>1, GroupExistsByRowsNext
  <2>2. CASE g \notin gs /\ rows[<<u, g>>] = 0
    BY <1>6, <1>8, <2>2, GroupExistsByRows, GroupExistsByRowsNext
  <2>3. CASE attrs[g] # {}
    BY <1>6, <2>3, GroupExistsByRows, GroupExistsByRowsNext
  <2>4. ASSUME NEW w \in User \ {u}, rows[<<w, g>>] > 0, g \notin gs
        PROVE  GroupExists(g)' <=> GroupExists(g)
    <3>1. w # t
      BY <1>4, <2>4
    <3>2. rows'[<<w, g>>] > 0
      BY <1>6, <2>4, <3>1
    <3>. QED  BY <2>4, <3>2, GroupExistsByRows, GroupExistsByRowsNext
  <2>. QED  BY <1>5, <2>1, <2>2, <2>3, <2>4
<1>11. ExistingGroups' = ExistingGroups
  BY <1>10 DEF ExistingGroups
<1>12. ExistingUsers = known /\ ExistingUsers' = known'
  BY <1>7, ExistingAreKnown, ExistingAreKnownNext
<1>13. Logged(j)
  BY <1>1, <1>2, <1>3, <1>4, <1>6, <1>11, <1>12, NamesAssumption DEF Logged
<1>14. Inherited
  <2>1. ASSUME NEW w \in User, NEW k \in Group, rows'[<<w, k>>] > 1
        PROVE  rows[<<w, k>>] = rows'[<<w, k>>]
    <3>1. w \notin {u, t}
      BY <1>6, <2>1
    <3>. QED  BY <1>6, <3>1
  <2>. QED  BY <2>1, InheritedInPlace
<1>. QED  BY <1>7, <1>9, <1>13, <1>14 DEF CommitKeeps

(* A request that keeps the memberships: the user may get another name.     *)
LEMMA TouchKeeps ==
  ASSUME DbTypes, MembersKnown, NEW p \in Proc, NEW j, j = job[p],
         Shape(j), UserChecked(j), CommitTouch(p)
  PROVE  CommitKeeps(j)
<1> DEFINE u == j.req.user
           t == Target(j.req, u)
<1>0. \A w \in User, g \in Group : rows[<<w, g>>] \in Nat
  BY RowsTyped
<1>1. /\ j.op = "touch" /\ u \in User /\ t \in User /\ {u, t} \subseteq j.locks
      /\ j.req.to = None <=> t = u
      /\ j.req.to # None => j.req.to = t
  BY NamesAssumption DEF CommitTouch, Writing, Shape, Target, Given
<1>2. /\ Came(j) = IF t = u THEN {} ELSE {t}
      /\ Went(j) = IF t = u THEN {} ELSE {u}
  BY <1>1 DEF Came, Went, Renames
<1>3. u \in known /\ (t # u => ~UserExists(t))
  BY <1>1, ExistsMeansKnown DEF UserChecked
<1>4. t # u => t \notin known /\ \A g \in Group : rows[<<t, g>>] = 0
  BY <1>0, <1>1, <1>3 DEF UserExists, Groups
<1>5. /\ known' = (known \ {u}) \cup {t} /\ attrs' = attrs
      /\ t = u => rows' = rows
      /\ t # u => \A g \in Group :
           rows'[<<t, g>>] = rows[<<t, g>>] + rows[<<u, g>>] /\ rows'[<<u, g>>] = 0
      /\ \A w \in User \ {u, t}, g \in Group : rows'[<<w, g>>] = rows[<<w, g>>]
      /\ rows' \in [Pair -> Nat]
  <2>1. rows' = Moved(u, j.req.to) /\ known' = (known \ {u}) \cup {t} /\ attrs' = attrs
    BY DEF CommitTouch
  <2> HIDE DEF u, t
  <2>2. CASE t = u
    BY <1>1, <2>1, <2>2 DEF Moved, DbTypes
  <2>3. CASE t # u
    <3>1. rows' = [x \in Pair |-> CASE x[1] = t -> rows[<<t, x[2]>>] + rows[<<u, x[2]>>]
                                    [] x[1] = u -> 0
                                    [] OTHER    -> rows[x]]
      BY <1>1, <2>1, <2>3 DEF Moved
    <3>. QED  BY <1>0, <1>1, <2>1, <2>3, <3>1 DEF Pair
  <2>. QED  BY <2>2, <2>3
<1> HIDE DEF u, t
<1>6. ASSUME t # u, NEW g \in Group
      PROVE  rows'[<<t, g>>] = rows[<<u, g>>] /\ rows'[<<u, g>>] = 0 /\ rows[<<t, g>>] = 0
  <2>1. rows[<<u, g>>] \in Nat
    BY <1>0, <1>1
  <2>. QED  BY <1>4, <1>5, <1>6, <2>1
<1>7. DbTypes' /\ MembersKnown'
  <2>1. DbTypes'
    BY <1>1, <1>5 DEF DbTypes
  <2>2. ASSUME NEW w \in User, NEW g \in Group, rows'[<<w, g>>] > 0
        PROVE  w \in known'
    <3>1. CASE w \notin {u, t}
      BY <1>5, <2>2, <3>1 DEF MembersKnown, Groups
    <3>2. CASE w = t
      BY <1>5, <3>2
    <3>3. CASE w = u
      <4>1. t # u => rows'[<<u, g>>] = 0
        BY <1>5
      <4>2. t = u
        BY <2>2, <3>3, <4>1
      <4>. QED  BY <1>5, <3>3, <4>2
    <3>. QED  BY <3>1, <3>2, <3>3
  <2>. QED  BY <2>1, <2>2 DEF MembersKnown, Groups
<1>8. ASSUME NEW g \in Group
      PROVE  (\E w \in {u, t} : rows'[<<w, g>>] > 0) <=> (\E w \in {u, t} : rows[<<w, g>>] > 0)
  <2>1. CASE t = u
    BY <1>5, <2>1
  <2>2. CASE t # u
    BY <1>6, <2>2
  <2>. QED  BY <2>1, <2>2
<1>9. Frame(j.locks)
  <2>3. \A w \in User \ j.locks, g \in Group : rows'[<<w, g>>] = rows[<<w, g>>]
    BY <1>1, <1>5
  <2>4. ASSUME NEW g \in Group \ j.locks
        PROVE  (\E w \in User \cap j.locks : rows'[<<w, g>>] > 0)
                 <=> (\E w \in User \cap j.locks : rows[<<w, g>>] > 0)
    BY <1>1, <1>5, <1>8
  <2>5. ASSUME NEW w \in User \ j.locks, NEW g \in Group \cap j.locks, rows'[<<w, g>>] > 0
        PROVE  rows[<<w, g>>] > 0
    BY <2>3, <2>5
  <2>. QED  BY <1>1, <1>5, <2>3, <2>4, <2>5 DEF Frame
<1>10. ASSUME NEW g \in Group PROVE GroupExists(g)' <=> GroupExists(g)
  <2>1. (\E w \in User : rows'[<<w, g>>] > 0) <=> (\E w \in User : rows[<<w, g>>] > 0)
    BY <1>1, <1>5, <1>8
  <2>. QED  BY <1>5, <2>1, GroupExistsByRows, GroupExistsByRowsNext
<1>11. ExistingGroups' = ExistingGroups
  BY <1>10 DEF ExistingGroups
<1>12. ExistingUsers = known /\ ExistingUsers' = known'
  BY <1>7, ExistingAreKnown, ExistingAreKnownNext
<1>13. Logged(j)
  BY <1>1, <1>2, <1>3, <1>4, <1>5, <1>11, <1>12, NamesAssumption DEF Logged
<1>14. Inherited
  <2>. DEFINE f == [x \in Pair |-> IF t # u /\ x[1] = t THEN <<u, x[2]>> ELSE x]
  <2>1. f \in [Pair -> Pair]
    BY <1>1 DEF Pair
  <2>2. \A w \in User, k \in Group :
          f[<<w, k>>] = IF t # u /\ w = t THEN <<u, k>> ELSE <<w, k>>
    BY DEF Pair
  <2>. HIDE DEF f
  <2>3. ASSUME NEW w \in User, NEW k \in Group, rows'[<<w, k>>] > 1
        PROVE  (t # u => w # u) /\ rows[f[<<w, k>>]] = rows'[<<w, k>>]
    <3>1. CASE w \notin {u, t} \/ t = u
      BY <1>5, <2>2, <3>1
    <3>2. CASE t # u /\ w \in {u, t}
      <4>1. rows'[<<u, k>>] = 0
        BY <1>6, <3>2
      <4>2. w = t
        BY <2>3, <3>2, <4>1
      <4>. QED  BY <1>1, <1>6, <2>2, <3>2, <4>2
    <3>. QED  BY <3>1, <3>2
  <2>4. ASSUME NEW w \in User, NEW v \in User, NEW k \in Group, NEW h \in Group,
               rows'[<<w, k>>] > 1, rows'[<<v, h>>] > 1, f[<<w, k>>] = f[<<v, h>>]
        PROVE  w = v /\ k = h
    <3>1. t # u => w # u /\ v # u
      BY <2>3, <2>4
    <3>2. (IF t # u /\ w = t THEN <<u, k>> ELSE <<w, k>>)
            = (IF t # u /\ v = t THEN <<u, h>> ELSE <<v, h>>)
      BY <2>2, <2>4
    <3>. QED  BY <3>1, <3>2
  <2>. QED  BY <2>1, <2>3, <2>4, InheritedBy
<1>. QED  BY <1>7, <1>9, <1>13, <1>14 DEF CommitKeeps

(* delete(): the user goes, and with it the groups found for the log.       *)
LEMMA DeleteKeeps ==
  ASSUME DbTypes, MembersKnown, NEW p \in Proc, NEW j, j = job[p],
         Shape(j), UserChecked(j), CommitDelete(p)
  PROVE  CommitKeeps(j)
<1> DEFINE u == j.req.user
<1>0. \A w \in User, g \in Group : rows[<<w, g>>] \in Nat
  BY RowsTyped
<1>1. /\ j.op = "delete" /\ u \in User /\ u \in j.locks
      /\ Came(j) = {} /\ Went(j) = {u} \cup j.plan
  BY DEF CommitDelete, Writing, Shape, Came, Went, Renames
<1>2. /\ u \in known /\ Groups(u) \subseteq j.locks
      /\ j.plan = {g \in Groups(u) : LastMembership(g, u)}
  BY <1>1, ExistsMeansKnown DEF UserChecked
<1>3. /\ known' = known \ {u} /\ attrs' = attrs
      /\ rows' \in [Pair -> Nat]
      /\ \A g \in Group : rows'[<<u, g>>] = 0
      /\ \A w \in User \ {u}, g \in Group : rows'[<<w, g>>] = rows[<<w, g>>]
  BY <1>1 DEF CommitDelete, Replaced, DbTypes, Pair
<1> HIDE DEF u
<1>4. DbTypes' /\ MembersKnown'
  <2>1. ASSUME NEW w \in User, NEW g \in Group, rows'[<<w, g>>] > 0
        PROVE  w \in known'
    <3>1. w # u
      BY <1>3, <2>1
    <3>. QED  BY <1>3, <2>1, <3>1 DEF MembersKnown, Groups
  <2>. QED  BY <1>3, <2>1 DEF DbTypes, MembersKnown, Groups
<1>5. Frame(j.locks)
  <2>1. \A g \in Group \ j.locks : rows[<<u, g>>] = 0
    BY <1>0, <1>1, <1>2 DEF Groups
  <2>2. \A w \in User, g \in Group \ j.locks : rows'[<<w, g>>] > 0 <=> rows[<<w, g>>] > 0
    BY <1>3, <2>1
  <2>3. \A w \in User \ j.locks, g \in Group : rows'[<<w, g>>] = rows[<<w, g>>]
    BY <1>1, <1>3
  <2>4. ASSUME NEW g \in Group \ j.locks
        PROVE  (\E w \in User \cap j.locks : rows'[<<w, g>>] > 0)
                 <=> (\E w \in User \cap j.locks : rows[<<w, g>>] > 0)
    BY <2>2
  <2>5. ASSUME NEW w \in User \ j.locks, NEW g \in Group \cap j.locks, rows'[<<w, g>>] > 0
        PROVE  rows[<<w, g>>] > 0
    BY <2>3, <2>5
  <2>. QED  BY <1>1, <1>3, <2>3, <2>4, <2>5 DEF Frame
<1>6. ASSUME NEW g \in Group
      PROVE  GroupExists(g)' <=> GroupExists(g) /\ g \notin j.plan
  <2>1. g \in j.plan <=> LastMembership(g, u)
    <3>1. LastMembership(g, u) => g \in Groups(u)
      BY <1>1, LastMembershipByRows DEF Groups
    <3>. QED  BY <1>2, <3>1
  <2>2. GroupExists(g)' <=> attrs[g] # {} \/ \E w \in User \ {u} : rows[<<w, g>>] > 0
    <3>1. ~(rows'[<<u, g>>] > 0)
      BY <1>3
    <3>. QED  BY <1>3, <3>1, GroupExistsByRowsNext
  <2>. QED  BY <1>1, <2>1, <2>2, GroupExistsByRows, LastMembershipByRows
<1>7. \A g \in j.plan : g \in Group /\ GroupExists(g)
  BY <1>1, <1>2, GroupExistsByRows DEF Groups
<1>8. /\ ExistingGroups' \ ExistingGroups = {}
      /\ ExistingGroups \ ExistingGroups' = j.plan
  BY <1>6, <1>7 DEF ExistingGroups
<1>9. ExistingUsers = known /\ ExistingUsers' = known'
  BY <1>4, ExistingAreKnown, ExistingAreKnownNext
<1>10. j.plan \cap User = {}
  BY <1>7, NamesAssumption
<1>11. Logged(j)
  BY <1>1, <1>2, <1>3, <1>7, <1>8, <1>9, <1>10, NamesAssumption DEF Logged
<1>12. Inherited
  <2>1. ASSUME NEW w \in User, NEW k \in Group, rows'[<<w, k>>] > 1
        PROVE  rows[<<w, k>>] = rows'[<<w, k>>]
    <3>1. w # u
      BY <1>3, <2>1
    <3>. QED  BY <1>3, <3>1
  <2>. QED  BY <2>1, InheritedInPlace
<1>. QED  BY <1>4, <1>5, <1>11, <1>12 DEF CommitKeeps

(* A commit about a group leaves the users as they are.                     *)
LEMMA UsersStay ==
  ASSUME DbTypes, MembersKnown, DbTypes', MembersKnown', known' = known
  PROVE  ExistingUsers' = ExistingUsers
BY ExistingAreKnown, ExistingAreKnownNext

(* create() of a group: it comes, with its attributes.                      *)
LEMMA GroupCreateKeeps ==
  ASSUME DbTypes, MembersKnown, NEW p \in Proc, NEW j, j = job[p],
         Shape(j), GroupChecked(j), CommitGroupCreate(p)
  PROVE  CommitKeeps(j)
<1> DEFINE g == j.req.group
<1>1. /\ j.op = "group_create" /\ g \in Group /\ g \in j.locks
      /\ j.plan \in (SUBSET Table) \ {{}}
      /\ Came(j) = {g} /\ Went(j) = {}
  BY DEF CommitGroupCreate, Writing, Shape, Came, Went, Renames
<1>2. ~GroupExists(g)
  BY <1>1 DEF GroupChecked
<1>3. /\ known' = known /\ rows' = rows
      /\ attrs' = [attrs EXCEPT ![g] = j.plan]
  BY DEF CommitGroupCreate
<1> HIDE DEF g
<1>4. DbTypes' /\ MembersKnown'
  BY <1>1, <1>3 DEF DbTypes, MembersKnown, Groups
<1>5. Frame(j.locks)
  BY <1>1, <1>3 DEF Frame, DbTypes
<1>6. \A h \in Group : GroupExists(h)' <=> GroupExists(h) \/ h = g
  BY <1>1, <1>3, GroupExistsByRows, GroupExistsByRowsNext DEF DbTypes
<1>7. /\ ExistingGroups' \ ExistingGroups = {g}
      /\ ExistingGroups \ ExistingGroups' = {}
  BY <1>1, <1>2, <1>6 DEF ExistingGroups
<1>8. Logged(j)
  BY <1>1, <1>3, <1>4, <1>7, UsersStay, NamesAssumption DEF Logged
<1>9. Inherited
  BY <1>3, InheritedInPlace
<1>. QED  BY <1>4, <1>5, <1>8, <1>9 DEF CommitKeeps

(* update() of a group: under its old or its new name it has an attribute   *)
(* or a member.                                                             *)
LEMMA GroupUpdateKeeps ==
  ASSUME DbTypes, MembersKnown, NEW p \in Proc, NEW j, j = job[p],
         Shape(j), GroupChecked(j), CommitGroupUpdate(p)
  PROVE  CommitKeeps(j)
<1> DEFINE g == j.req.group
           h == Target(j.req, g)
<1>0. \A w \in User, k \in Group : rows[<<w, k>>] \in Nat
  BY RowsTyped
<1>1. /\ j.op = "group_update" /\ g \in Group /\ h \in Group /\ {g, h} \subseteq j.locks
      /\ j.plan \subseteq Table
      /\ j.req.to = None <=> h = g
      /\ j.req.to # None => j.req.to = h
  BY NamesAssumption DEF CommitGroupUpdate, Writing, Shape, Target, Given
<1>2. /\ Came(j) = IF h = g THEN {} ELSE {h}
      /\ Went(j) = IF h = g THEN {} ELSE {g}
  BY <1>1 DEF Came, Went, Renames
<1>3. /\ GroupExists(g) /\ (h # g => ~GroupExists(h))
      /\ j.plan # {} \/ Members(g) # {}
  BY <1>1 DEF GroupChecked
<1>4. h # g => \A w \in User : rows[<<w, h>>] = 0
  BY <1>0, <1>1, <1>3, GroupExistsByRows
<1>5. /\ known' = known
      /\ attrs' \in [Group -> SUBSET Table]
      /\ rows' \in [Pair -> Nat]
      /\ attrs'[h] = j.plan /\ (h # g => attrs'[g] = {})
      /\ \A k \in Group \ {g, h} : attrs'[k] = attrs[k]
      /\ h = g => rows' = rows
      /\ h # g => \A w \in User :
           rows'[<<w, h>>] = rows[<<w, h>>] + rows[<<w, g>>] /\ rows'[<<w, g>>] = 0
      /\ \A w \in User, k \in Group \ {g, h} : rows'[<<w, k>>] = rows[<<w, k>>]
  <2>1. /\ known' = known
        /\ attrs' = [k \in Group |-> CASE k = h -> j.plan
                                       [] k = g /\ h # g -> {}
                                       [] OTHER -> attrs[k]]
        /\ rows' = IF h = g THEN rows
                   ELSE [x \in Pair |->
                           CASE x[2] = h -> rows[x] + rows[<<x[1], g>>]
                             [] x[2] = g -> 0
                             [] OTHER    -> rows[x]]
    BY DEF CommitGroupUpdate
  <2> HIDE DEF g, h
  <2>2. /\ attrs' \in [Group -> SUBSET Table]
        /\ attrs'[h] = j.plan /\ (h # g => attrs'[g] = {})
        /\ \A k \in Group \ {g, h} : attrs'[k] = attrs[k]
    BY <1>1, <2>1 DEF DbTypes
  <2>3. CASE h = g
    BY <2>1, <2>2, <2>3 DEF DbTypes
  <2>4. CASE h # g
    BY <1>0, <1>1, <2>1, <2>2, <2>4 DEF Pair
  <2>. QED  BY <2>3, <2>4
<1> HIDE DEF g, h
<1>6. ASSUME h # g, NEW w \in User
      PROVE  rows'[<<w, h>>] = rows[<<w, g>>] /\ rows'[<<w, g>>] = 0 /\ rows[<<w, h>>] = 0
  <2>1. rows[<<w, g>>] \in Nat
    BY <1>0, <1>1
  <2>. QED  BY <1>4, <1>5, <1>6, <2>1
<1>7. ASSUME NEW w \in User
      PROVE  (\E k \in {g, h} : rows'[<<w, k>>] > 0) <=> (\E k \in {g, h} : rows[<<w, k>>] > 0)
  <2>1. CASE h = g
    BY <1>5, <2>1
  <2>2. CASE h # g
    BY <1>6, <2>2
  <2>. QED  BY <2>1, <2>2
<1>8. DbTypes' /\ MembersKnown'
  <2>1. ASSUME NEW w \in User, NEW k \in Group, rows'[<<w, k>>] > 0
        PROVE  \E m \in Group : rows[<<w, m>>] > 0
    BY <1>1, <1>5, <1>7, <2>1
  <2>. QED  BY <1>5, <2>1 DEF DbTypes, MembersKnown, Groups
<1>9. Frame(j.locks)
  <2>1. \A w \in User, k \in Group \ j.locks : rows'[<<w, k>>] = rows[<<w, k>>]
    BY <1>1, <1>5
  <2>2. \A k \in Group \ j.locks : attrs'[k] = attrs[k]
    BY <1>1, <1>5
  <2>3. ASSUME NEW w \in User \ j.locks, NEW k \in Group \cap j.locks, rows'[<<w, k>>] > 0
        PROVE  \E m \in Group \cap j.locks : rows[<<w, m>>] > 0
    BY <1>1, <1>5, <1>7, <2>3
  <2>4. ASSUME NEW k \in Group \ j.locks
        PROVE  (\E w \in User \cap j.locks : rows'[<<w, k>>] > 0)
                 <=> (\E w \in User \cap j.locks : rows[<<w, k>>] > 0)
    BY <2>1
  <2>. QED  BY <1>5, <2>1, <2>2, <2>3, <2>4 DEF Frame
<1>10. GroupExists(h)' /\ (h # g => ~GroupExists(g)')
  <2>1. ASSUME NEW w \in User, rows[<<w, g>>] > 0 PROVE rows'[<<w, h>>] > 0
    <3>1. CASE h = g
      BY <1>5, <2>1, <3>1
    <3>2. CASE h # g
      BY <1>6, <2>1, <3>2
    <3>. QED  BY <3>1, <3>2
  <2>2. GroupExists(h)'
    BY <1>1, <1>3, <1>5, <2>1, GroupExistsByRowsNext DEF Members
  <2>3. ASSUME h # g PROVE ~GroupExists(g)'
    <3>1. \A w \in User : rows'[<<w, g>>] = 0
      BY <1>6, <2>3
    <3>2. \A w \in User : ~(rows'[<<w, g>>] > 0)
      BY <3>1
    <3>. QED  BY <1>1, <1>5, <2>3, <3>2, GroupExistsByRowsNext
  <2>. QED  BY <2>2, <2>3
<1>11. \A k \in Group \ {g, h} : GroupExists(k)' <=> GroupExists(k)
  BY <1>5, GroupExistsByRows, GroupExistsByRowsNext
<1>12. /\ ExistingGroups' \ ExistingGroups = IF h = g THEN {} ELSE {h}
       /\ ExistingGroups \ ExistingGroups' = IF h = g THEN {} ELSE {g}
  BY <1>1, <1>3, <1>10, <1>11 DEF ExistingGroups
<1>13. Logged(j)
  BY <1>1, <1>2, <1>5, <1>8, <1>12, UsersStay, NamesAssumption DEF Logged
<1>14. Inherited
  <2>. DEFINE f == [x \in Pair |-> IF h # g /\ x[2] = h THEN <<x[1], g>> ELSE x]
  <2>1. f \in [Pair -> Pair]
    BY <1>1 DEF Pair
  <2>2. \A w \in User, k \in Group :
          f[<<w, k>>] = IF h # g /\ k = h THEN <<w, g>> ELSE <<w, k>>
    BY DEF Pair
  <2>. HIDE DEF f
  <2>3. ASSUME NEW w \in User, NEW k \in Group, rows'[<<w, k>>] > 1
        PROVE  (h # g => k # g) /\ rows[f[<<w, k>>]] = rows'[<<w, k>>]
    <3>1. CASE k \notin {g, h} \/ h = g
      BY <1>5, <2>2, <3>1
    <3>2. CASE h # g /\ k \in {g, h}
      <4>1. rows'[<<w, g>>] = 0
        BY <1>6, <3>2
      <4>2. k = h
        BY <2>3, <3>2, <4>1
      <4>. QED  BY <1>1, <1>6, <2>2, <3>2, <4>2
    <3>. QED  BY <3>1, <3>2
  <2>4. ASSUME NEW w \in User, NEW v \in User, NEW k \in Group, NEW m \in Group,
               rows'[<<w, k>>] > 1, rows'[<<v, m>>] > 1, f[<<w, k>>] = f[<<v, m>>]
        PROVE  w = v /\ k = m
    <3>1. h # g => k # g /\ m # g
      BY <2>3, <2>4
    <3>2. (IF h # g /\ k = h THEN <<w, g>> ELSE <<w, k>>)
            = (IF h # g /\ m = h THEN <<v, g>> ELSE <<v, m>>)
      BY <2>2, <2>4
    <3>. QED  BY <3>1, <3>2
  <2>. QED  BY <2>1, <2>3, <2>4, InheritedBy
<1>. QED  BY <1>8, <1>9, <1>13, <1>14 DEF CommitKeeps

(* delete() of a group: it goes with its memberships; the users stay.       *)
LEMMA GroupDeleteKeeps ==
  ASSUME DbTypes, MembersKnown, NEW p \in Proc, NEW j, j = job[p],
         Shape(j), GroupChecked(j), CommitGroupDelete(p)
  PROVE  CommitKeeps(j)
<1> DEFINE g == j.req.group
<1>1. /\ j.op = "group_delete" /\ g \in Group /\ g \in j.locks
      /\ Came(j) = {} /\ Went(j) = {g}
  BY DEF CommitGroupDelete, Writing, Shape, Came, Went, Renames
<1>2. GroupExists(g)
  BY <1>1 DEF GroupChecked
<1>3. /\ known' = known /\ rows' \in [Pair -> Nat]
      /\ attrs' = [attrs EXCEPT ![g] = {}]
      /\ \A w \in User : rows'[<<w, g>>] = 0
      /\ \A w \in User, k \in Group \ {g} : rows'[<<w, k>>] = rows[<<w, k>>]
  BY <1>1 DEF CommitGroupDelete, DbTypes, Pair
<1> HIDE DEF g
<1>4. DbTypes' /\ MembersKnown'
  <2>1. ASSUME NEW w \in User, NEW k \in Group, rows'[<<w, k>>] > 0
        PROVE  rows[<<w, k>>] > 0
    <3>1. k # g
      BY <1>3, <2>1
    <3>. QED  BY <1>3, <2>1, <3>1
  <2>. QED  BY <1>1, <1>3, <2>1 DEF DbTypes, MembersKnown, Groups
<1>5. Frame(j.locks)
  <2>1. /\ \A w \in User, k \in Group \ j.locks : rows'[<<w, k>>] = rows[<<w, k>>]
        /\ \A k \in Group \ j.locks : attrs'[k] = attrs[k]
    BY <1>1, <1>3 DEF DbTypes
  <2>2. ASSUME NEW w \in User \ j.locks, NEW k \in Group \cap j.locks, rows'[<<w, k>>] > 0
        PROVE  rows[<<w, k>>] > 0
    <3>1. k # g
      BY <1>3, <2>2
    <3>. QED  BY <1>3, <2>2, <3>1
  <2>3. ASSUME NEW k \in Group \ j.locks
        PROVE  (\E w \in User \cap j.locks : rows'[<<w, k>>] > 0)
                 <=> (\E w \in User \cap j.locks : rows[<<w, k>>] > 0)
    BY <2>1
  <2>. QED  BY <1>3, <2>1, <2>2, <2>3 DEF Frame
<1>6. ~GroupExists(g)'
  <2>1. \A w \in User : ~(rows'[<<w, g>>] > 0)
    BY <1>3
  <2>. QED  BY <1>1, <1>3, <2>1, GroupExistsByRowsNext DEF DbTypes
<1>7. \A k \in Group \ {g} : GroupExists(k)' <=> GroupExists(k)
  BY <1>1, <1>3, GroupExistsByRows, GroupExistsByRowsNext DEF DbTypes
<1>8. /\ ExistingGroups' \ ExistingGroups = {}
      /\ ExistingGroups \ ExistingGroups' = {g}
  BY <1>1, <1>2, <1>6, <1>7 DEF ExistingGroups
<1>9. Logged(j)
  BY <1>1, <1>3, <1>4, <1>8, UsersStay, NamesAssumption DEF Logged
<1>10. Inherited
  <2>1. ASSUME NEW w \in User, NEW k \in Group, rows'[<<w, k>>] > 1
        PROVE  rows[<<w, k>>] = rows'[<<w, k>>]
    <3>1. k # g
      BY <1>3, <2>1
    <3>. QED  BY <1>3, <3>1
  <2>. QED  BY <2>1, InheritedInPlace
<1>. QED  BY <1>4, <1>5, <1>9, <1>10 DEF CommitKeeps

(* Memberships that are added: group and users were there.                  *)
LEMMA AddKeeps ==
  ASSUME DbTypes, MembersKnown, NEW p \in Proc, NEW j, j = job[p],
         Shape(j), GroupChecked(j), CommitAdd(p)
  PROVE  CommitKeeps(j)
<1> DEFINE g == j.req.group
<1>0. \A w \in User, k \in Group : rows[<<w, k>>] \in Nat
  BY RowsTyped
<1>1. /\ j.op = "add" /\ g \in Group /\ g \in j.locks
      /\ j.plan \subseteq j.locks \cap User
      /\ Came(j) = {} /\ Went(j) = {}
  BY DEF CommitAdd, Writing, Shape, Came, Went, Renames
<1>2. GroupExists(g) /\ j.plan \subseteq known
  BY <1>1, ExistsMeansKnown DEF GroupChecked
<1>3. /\ known' = known /\ attrs' = attrs
      /\ rows' = [x \in Pair |-> IF x[2] = g /\ x[1] \in j.plan THEN rows[x] + 1 ELSE rows[x]]
  BY DEF CommitAdd
<1> HIDE DEF g
<1>4. /\ rows' \in [Pair -> Nat]
      /\ \A w \in User \cap j.plan : rows'[<<w, g>>] = rows[<<w, g>>] + 1
      /\ \A w \in User, k \in Group :
           w \notin j.plan \/ k # g => rows'[<<w, k>>] = rows[<<w, k>>]
  BY <1>0, <1>1, <1>3 DEF DbTypes, Pair
<1>5. DbTypes' /\ MembersKnown'
  <2>1. ASSUME NEW w \in User, NEW k \in Group, rows'[<<w, k>>] > 0
        PROVE  w \in known
    <3>1. CASE w \in j.plan
      BY <1>2, <3>1
    <3>2. CASE w \notin j.plan
      BY <1>4, <2>1, <3>2 DEF MembersKnown, Groups
    <3>. QED  BY <3>1, <3>2
  <2>. QED  BY <1>3, <1>4, <2>1 DEF DbTypes, MembersKnown, Groups
<1>6. Frame(j.locks)
  <2>1. \A w \in User, k \in Group \ j.locks : rows'[<<w, k>>] = rows[<<w, k>>]
    BY <1>1, <1>4
  <2>2. ASSUME NEW w \in User \ j.locks, NEW k \in Group \cap j.locks, rows'[<<w, k>>] > 0
        PROVE  rows[<<w, k>>] > 0
    BY <1>1, <1>4, <2>2
  <2>3. ASSUME NEW k \in Group \ j.locks
        PROVE  (\E w \in User \cap j.locks : rows'[<<w, k>>] > 0)
                 <=> (\E w \in User \cap j.locks : rows[<<w, k>>] > 0)
    BY <2>1
  <2>. QED  BY <1>3, <2>1, <2>2, <2>3 DEF Frame
<1>7. \A w \in User, k \in Group : rows[<<w, k>>] > 0 => rows'[<<w, k>>] > 0
  <2>1. ASSUME NEW w \in User, NEW k \in Group, rows[<<w, k>>] > 0
        PROVE  rows'[<<w, k>>] > 0
    <3>1. CASE w \in j.plan /\ k = g
      <4>1. rows[<<w, g>>] \in Nat /\ rows'[<<w, g>>] = rows[<<w, g>>] + 1
        BY <1>0, <1>1, <1>4, <3>1
      <4>. QED  BY <3>1, <4>1
    <3>2. CASE w \notin j.plan \/ k # g
      BY <1>4, <2>1, <3>2
    <3>. QED  BY <3>1, <3>2
  <2>. QED  BY <2>1
<1>8. ASSUME NEW k \in Group PROVE GroupExists(k)' <=> GroupExists(k)
  <2>1. CASE k = g
    <3>1. GroupExists(g)'
      BY <1>1, <1>2, <1>3, <1>7, GroupExistsByRows, GroupExistsByRowsNext
    <3>. QED  BY <1>2, <2>1, <3>1, GroupExistsByRows, GroupExistsByRowsNext
  <2>2. CASE k # g
    <3>1. \A w \in User : rows'[<<w, k>>] = rows[<<w, k>>]
      BY <1>4, <2>2
    <3>. QED  BY <1>3, <3>1, GroupExistsByRows, GroupExistsByRowsNext
  <2>. QED  BY <2>1, <2>2
<1>9. ExistingGroups' = ExistingGroups
  BY <1>8 DEF ExistingGroups
<1>10. Logged(j)
  BY <1>1, <1>3, <1>5, <1>9, UsersStay DEF Logged
<1>11. Inherited
  <2>1. ASSUME NEW w \in User, NEW k \in Group, rows'[<<w, k>>] > 1
        PROVE  rows[<<w, k>>] = rows'[<<w, k>>]
    <3>1. CASE w \in j.plan /\ k = g
      <4>1. ~(rows[<<w, g>>] > 0)
        BY <1>1, <3>1 DEF GroupChecked, Members, g
      <4>2. rows[<<w, g>>] = 0 /\ rows'[<<w, g>>] = rows[<<w, g>>] + 1
        BY <1>0, <1>1, <1>4, <3>1, <4>1
      <4>. QED  BY <2>1, <3>1, <4>2
    <3>2. CASE w \notin j.plan \/ k # g
      BY <1>4, <3>2
    <3>. QED  BY <3>1, <3>2
  <2>. QED  BY <2>1, InheritedInPlace
<1>. QED  BY <1>5, <1>6, <1>10, <1>11 DEF CommitKeeps

(* Memberships that are removed: an attribute or a member is left.          *)
LEMMA RemoveKeeps ==
  ASSUME DbTypes, MembersKnown, NEW p \in Proc, NEW j, j = job[p],
         Shape(j), GroupChecked(j), CommitRemove(p)
  PROVE  CommitKeeps(j)
<1> DEFINE g == j.req.group
<1>1. /\ j.op = "remove" /\ g \in Group /\ g \in j.locks
      /\ j.plan \subseteq j.locks \cap User
      /\ Came(j) = {} /\ Went(j) = {}
  BY DEF CommitRemove, Writing, Shape, Came, Went, Renames
<1>2. attrs[g] # {} \/ \E w \in User \ j.plan : rows[<<w, g>>] > 0
  BY <1>1 DEF GroupChecked, Members
<1>3. /\ known' = known /\ attrs' = attrs /\ rows' \in [Pair -> Nat]
      /\ \A w \in User \cap j.plan : rows'[<<w, g>>] = 0
      /\ \A w \in User, k \in Group :
           w \notin j.plan \/ k # g => rows'[<<w, k>>] = rows[<<w, k>>]
  BY <1>1 DEF CommitRemove, DbTypes, Pair
<1> HIDE DEF g
<1>4. \A w \in User, k \in Group : rows'[<<w, k>>] > 0 => rows[<<w, k>>] > 0
  <2>1. ASSUME NEW w \in User, NEW k \in Group, rows'[<<w, k>>] > 0
        PROVE  rows[<<w, k>>] > 0
    <3>1. w \notin j.plan \/ k # g
      BY <1>3, <2>1
    <3>. QED  BY <1>3, <2>1, <3>1
  <2>. QED  BY <2>1
<1>5. DbTypes' /\ MembersKnown'
  BY <1>3, <1>4 DEF DbTypes, MembersKnown, Groups
<1>6. Frame(j.locks)
  <2>1. \A w \in User, k \in Group \ j.locks : rows'[<<w, k>>] = rows[<<w, k>>]
    BY <1>1, <1>3
  <2>2. ASSUME NEW k \in Group \ j.locks
        PROVE  (\E w \in User \cap j.locks : rows'[<<w, k>>] > 0)
                 <=> (\E w \in User \cap j.locks : rows[<<w, k>>] > 0)
    BY <2>1
  <2>. QED  BY <1>3, <1>4, <2>1, <2>2 DEF Frame
<1>7. ASSUME NEW k \in Group PROVE GroupExists(k)' <=> GroupExists(k)
  <2>1. CASE k = g
    <3>1. GroupExists(g)' /\ GroupExists(g)
      BY <1>1, <1>2, <1>3, GroupExistsByRows, GroupExistsByRowsNext
    <3>. QED  BY <2>1, <3>1, GroupExistsByRows, GroupExistsByRowsNext
  <2>2. CASE k # g
    BY <1>3, <2>2, GroupExistsByRows, GroupExistsByRowsNext
  <2>. QED  BY <2>1, <2>2
<1>8. ExistingGroups' = ExistingGroups
  BY <1>7 DEF ExistingGroups
<1>9. Logged(j)
  BY <1>1, <1>3, <1>5, <1>8, UsersStay DEF Logged
<1>10. Inherited
  <2>1. ASSUME NEW w \in User, NEW k \in Group, rows'[<<w, k>>] > 1
        PROVE  rows[<<w, k>>] = rows'[<<w, k>>]
    <3>1. w \notin j.plan \/ k # g
      BY <1>3, <2>1
    <3>. QED  BY <1>3, <3>1
  <2>. QED  BY <2>1, InheritedInPlace
<1>. QED  BY <1>5, <1>6, <1>9, <1>10 DEF CommitKeeps

-----------------------------------------------------------------------------
\* The data and the step of another request's commit.
FramedStep(L) ==
  DbTypes /\ DbTypes' /\ MembersKnown /\ MembersKnown' /\ Frame(L)

LEMMA UserKept ==
  ASSUME NEW L, FramedStep(L), NEW u \in User \ L
  PROVE  /\ UserExists(u)' <=> UserExists(u)
         /\ \A g \in Group \ L : rows'[<<u, g>>] = rows[<<u, g>>]
<1>1. UserExists(u)' <=> u \in known'
  BY DEF FramedStep, MembersKnown, UserExists
<1>. QED  BY <1>1, ExistsMeansKnown DEF FramedStep, Frame

LEMMA GroupKept ==
  ASSUME NEW L, FramedStep(L), NEW g \in Group \ L
  PROVE  /\ attrs'[g] = attrs[g]
         /\ GroupExists(g)' <=> GroupExists(g)
         /\ \A S \in SUBSET User : S \cap L = {} => (Members(g)' \subseteq S <=> Members(g) \subseteq S)
<1>1. /\ attrs'[g] = attrs[g]
      /\ \A w \in User \ L : rows'[<<w, g>>] = rows[<<w, g>>]
      /\ (\E w \in User \cap L : rows'[<<w, g>>] > 0) <=> (\E w \in User \cap L : rows[<<w, g>>] > 0)
  BY DEF FramedStep, Frame
<1>2. (\E w \in User : rows'[<<w, g>>] > 0) <=> (\E w \in User : rows[<<w, g>>] > 0)
  BY <1>1
<1>3. ASSUME NEW S \in SUBSET User, S \cap L = {}
      PROVE  Members(g)' \subseteq S <=> Members(g) \subseteq S
  BY <1>1, <1>3 DEF Members
<1>. QED  BY <1>1, <1>2, <1>3, GroupExistsByRows, GroupExistsByRowsNext

(* A user whose memberships a request has locked does not get another one.  *)
LEMMA LockedMembershipsKept ==
  ASSUME NEW L, FramedStep(L), NEW S, S \cap L = {},
         NEW u \in User \cap S, Groups(u) \subseteq S
  PROVE  /\ Groups(u)' = Groups(u)
         /\ \A g \in Groups(u) : LastMembership(g, u)' <=> LastMembership(g, u)
<1>1. u \in User \ L
  OBVIOUS
<1>2. ASSUME NEW g \in Group, rows'[<<u, g>>] > 0 PROVE g \notin L
  <2>1. SUFFICES ASSUME g \in L PROVE FALSE
    OBVIOUS
  <2>2. PICK h \in Group \cap L : rows[<<u, h>>] > 0
    BY <1>1, <1>2, <2>1 DEF FramedStep, Frame
  <2>. QED  BY <2>2 DEF Groups
<1>3. \A g \in Group : rows'[<<u, g>>] > 0 <=> rows[<<u, g>>] > 0
  BY <1>1, <1>2, UserKept DEF Groups
<1>4. ASSUME NEW g \in Groups(u)
      PROVE  LastMembership(g, u)' <=> LastMembership(g, u)
  <2>1. g \in Group \ L /\ rows[<<u, g>>] > 0 /\ rows'[<<u, g>>] > 0
    BY <1>3, <1>4 DEF Groups
  <2>2. attrs'[g] = attrs[g] /\ (Members(g)' \subseteq {u} <=> Members(g) \subseteq {u})
    BY <1>1, <2>1, GroupKept
  <2>. QED  BY <2>1, <2>2 DEF LastMembership, Members
<1>. QED  BY <1>3, <1>4 DEF Groups

(* What a request has checked under its locks, the commit of another with   *)
(* other locks leaves true.                                                 *)
LEMMA CheckStaysTrue ==
  ASSUME NEW L, FramedStep(L), NEW j, Shape(j), j.locks \cap L = {},
         UserChecked(j), GroupChecked(j)
  PROVE  UserChecked(j)' /\ GroupChecked(j)'
<1> DEFINE u == j.req.user
           g == j.req.group
<1>1. ASSUME NEW v \in User \cap j.locks PROVE UserExists(v)' <=> UserExists(v)
  BY UserKept
<1>2. ASSUME NEW h \in Group \cap j.locks
      PROVE  /\ attrs'[h] = attrs[h]
             /\ GroupExists(h)' <=> GroupExists(h)
             /\ \A S \in SUBSET User : S \cap L = {}
                  => (Members(h)' \subseteq S <=> Members(h) \subseteq S)
  BY GroupKept
<1>3. CASE j.op = "create"
  <2>1. u \in User \cap j.locks /\ j.req.groups \subseteq Group \cap j.locks
    BY <1>3 DEF Shape
  <2>. QED  BY <1>1, <1>2, <1>3, <2>1 DEF UserChecked, GroupChecked
<1>4. CASE j.op = "update"
  <2>1. /\ u \in User \cap j.locks /\ j.req.groups \subseteq Group \cap j.locks
        /\ j.req.to # None => j.req.to \in User \cap j.locks
    BY <1>4, NamesAssumption DEF Shape, Given
  <2>2. MayReplace(u, j.req.groups, j.locks)
    BY <1>4 DEF UserChecked
  <2>3. Groups(u) \subseteq j.locks
    BY <2>1, <2>2 DEF MayReplace
  <2>4. /\ Groups(u)' = Groups(u)
        /\ \A k \in Groups(u) : LastMembership(k, u)' <=> LastMembership(k, u)
    BY <2>1, <2>3, LockedMembershipsKept
  <2>5. MayReplace(u, j.req.groups, j.locks)'
    BY <1>2, <2>1, <2>2, <2>4 DEF MayReplace
  <2>. QED  BY <1>1, <1>4, <2>1, <2>5 DEF UserChecked, GroupChecked
<1>5. CASE j.op = "touch"
  <2>1. /\ u \in User \cap j.locks
        /\ j.req.to # None => j.req.to \in User \cap j.locks
    BY <1>5, NamesAssumption DEF Shape, Given
  <2>. QED  BY <1>1, <1>5, <2>1 DEF UserChecked, GroupChecked
<1>6. CASE j.op = "delete"
  <2>1. u \in User \cap j.locks
    BY <1>6 DEF Shape
  <2>2. Groups(u) \subseteq j.locks /\ j.plan = {k \in Groups(u) : LastMembership(k, u)}
    BY <1>6 DEF UserChecked
  <2>3. /\ Groups(u)' = Groups(u)
        /\ \A k \in Groups(u) : LastMembership(k, u)' <=> LastMembership(k, u)
    BY <2>1, <2>2, LockedMembershipsKept
  <2>. QED  BY <1>1, <1>6, <2>1, <2>2, <2>3 DEF UserChecked, GroupChecked
<1>7. CASE j.op = "group_update"
  <2>1. /\ g \in Group \cap j.locks
        /\ j.req.to # None => j.req.to \in Group \cap j.locks
    BY <1>7, NamesAssumption DEF Shape, Given
  <2>2. (j.plan # {} \/ Members(g) # {})'
    <3>1. Members(g)' \subseteq {} <=> Members(g) \subseteq {}
      BY <1>2, <2>1
    <3>. QED  BY <1>7, <3>1 DEF GroupChecked
  <2>. QED  BY <1>2, <1>7, <2>1, <2>2 DEF UserChecked, GroupChecked, After
<1>8. CASE j.op \in {"group_create", "group_delete"}
  <2>1. g \in Group \cap j.locks
    BY <1>8 DEF Shape
  <2>. QED  BY <1>2, <1>8, <2>1 DEF UserChecked, GroupChecked
<1>9. CASE j.op = "add"
  <2>1. g \in Group \cap j.locks /\ j.plan \subseteq j.locks \cap User
    BY <1>9 DEF Shape
  <2>2. j.plan \cap Members(g) = {}
    BY <1>9 DEF GroupChecked
  <2>3. j.plan \cap Members(g)' = {}
    <3>1. ASSUME NEW w \in j.plan PROVE rows'[<<w, g>>] = rows[<<w, g>>]
      BY <2>1, UserKept
    <3>. QED  BY <2>1, <2>2, <3>1 DEF Members
  <2>. QED  BY <1>1, <1>2, <1>9, <2>1, <2>3 DEF UserChecked, GroupChecked
<1>10. CASE j.op = "remove"
  <2>1. g \in Group \cap j.locks /\ j.plan \subseteq j.locks \cap User
    BY <1>10 DEF Shape
  <2>2. j.plan \in SUBSET User /\ j.plan \cap L = {}
    BY <2>1
  <2>. QED  BY <1>2, <1>10, <2>1, <2>2 DEF UserChecked, GroupChecked
<1>. QED  BY <1>3, <1>4, <1>5, <1>6, <1>7, <1>8, <1>9, <1>10 DEF Shape

-----------------------------------------------------------------------------
LEMMA CheckedUnchanged ==
  ASSUME UNCHANGED db, NEW j, UserChecked(j), GroupChecked(j)
  PROVE  UserChecked(j)' /\ GroupChecked(j)'
BY DEF db, UserChecked, GroupChecked, UserExists, GroupExists, Groups, Members,
       MayReplace, LastMembership, After

LEMMA JobsNext ==
  ASSUME JobShape, NEW p \in Proc, NEW r, job' = [job EXCEPT ![p] = r]
  PROVE  /\ job' = [q \in Proc |-> job'[q]]
         /\ job'[p] = r
         /\ \A q \in Proc \ {p} : job'[q] = job[q] /\ job'[q] \in Jobs
         /\ \A j \in Jobs' : j = r \/ j \in Jobs
BY DEF JobShape, Jobs

(* A request that begins, enters its block or gives up changes no data.     *)
LEMMA TurnKeeps ==
  ASSUME IInv, NEW p \in Proc, NEW r, job' = [job EXCEPT ![p] = r], UNCHANGED db,
         r = Idle \/ (r.stage \in {"lock", "write"} /\ Shape(r)),
         r.stage = "write" =>
           UserChecked(r) /\ GroupChecked(r) /\ r.locks \cap Locked = {}
  PROVE  IInv'
<1>1. /\ job' = [q \in Proc |-> job'[q]]
      /\ job'[p] = r
      /\ \A q \in Proc \ {p} : job'[q] = job[q]
      /\ \A j \in Jobs' : j = r \/ j \in Jobs
  BY JobsNext DEF IInv
<1>2. DbTypes' /\ MembersKnown'
  BY DEF IInv, db, DbTypes, MembersKnown, Groups
<1>3. JobShape'
  BY <1>1 DEF IInv, JobShape
<1>4. Exclusive'
  <2>1. \A q \in Proc \ {p} : job[q].stage = "write" => job[q].locks \subseteq Locked
    BY DEF Locked
  <2>2. ASSUME NEW a \in Proc, NEW b \in Proc, a # b,
               job'[a].stage = "write", job'[b].stage = "write"
        PROVE  job'[a].locks \cap job'[b].locks = {}
    <3>1. CASE a = p
      BY <1>1, <2>1, <2>2, <3>1
    <3>2. CASE b = p
      BY <1>1, <2>1, <2>2, <3>2
    <3>3. CASE a # p /\ b # p
      BY <1>1, <2>2, <3>3 DEF IInv, Exclusive
    <3>. QED  BY <3>1, <3>2, <3>3
  <2>. QED  BY <2>2 DEF Exclusive
<1>5. StillTrue'
  <2>1. ASSUME NEW j \in Jobs', j.stage = "write"
        PROVE  UserChecked(j)' /\ GroupChecked(j)'
    <3>1. UserChecked(j) /\ GroupChecked(j)
      BY <1>1, <2>1 DEF IInv, StillTrue
    <3>. QED  BY <3>1, CheckedUnchanged
  <2>. QED  BY <2>1 DEF StillTrue
<1>. QED  BY <1>2, <1>3, <1>4, <1>5 DEF IInv

LEMMA EnterKeeps ==
  ASSUME IInv, NEW p \in Proc, NEW op, NEW req, NEW locks, NEW plan,
         Enter(p, op, req, locks, plan),
         NEW r, r = [stage |-> "write", op |-> op, req |-> req, locks |-> locks, plan |-> plan],
         Shape(r), UserChecked(r), GroupChecked(r)
  PROVE  IInv'
<1>1. job' = [job EXCEPT ![p] = r] /\ UNCHANGED db /\ r.locks \cap Locked = {}
  BY DEF Enter
<1>. QED  BY <1>1, TurnKeeps

(* A commit ends its block, and all others still hold what they have found. *)
LEMMA CommitEnds ==
  ASSUME IInv, NEW p \in Proc, job[p].stage = "write", Done(p),
         NEW j, j = job[p], CommitKeeps(j)
  PROVE  IInv'
<1>1. /\ job' = [q \in Proc |-> job'[q]]
      /\ job'[p] = Idle
      /\ \A q \in Proc \ {p} : job'[q] = job[q]
      /\ \A k \in Jobs' : k = Idle \/ k \in Jobs
  BY JobsNext DEF IInv, Done
<1>2. FramedStep(j.locks)
  BY DEF IInv, CommitKeeps, FramedStep
<1>3. JobShape'
  BY <1>1 DEF IInv, JobShape
<1>4. Exclusive'
  BY <1>1 DEF IInv, Exclusive, Idle
<1>5. StillTrue'
  <2>1. ASSUME NEW k \in Jobs', k.stage = "write"
        PROVE  UserChecked(k)' /\ GroupChecked(k)'
    <3>1. PICK q \in Proc : k = job'[q]
      BY <2>1 DEF Jobs
    <3>2. q # p /\ k = job[q] /\ k \in Jobs /\ k # Idle
      BY <1>1, <2>1, <3>1 DEF Idle, Jobs
    <3>3. k.locks \cap j.locks = {}
      BY <2>1, <3>2 DEF IInv, Exclusive
    <3>4. Shape(k) /\ UserChecked(k) /\ GroupChecked(k)
      BY <2>1, <3>2 DEF IInv, JobShape, StillTrue
    <3>. QED  BY <1>2, <3>3, <3>4, CheckStaysTrue
  <2>. QED  BY <2>1 DEF StillTrue
<1>. QED  BY <1>3, <1>4, <1>5 DEF IInv, CommitKeeps

\* A commit of any kind.
CommitAny(p) ==
  \/ CommitCreate(p) \/ CommitUpdate(p) \/ CommitTouch(p) \/ CommitDelete(p)
  \/ CommitGroupCreate(p) \/ CommitGroupUpdate(p) \/ CommitGroupDelete(p)
  \/ CommitAdd(p) \/ CommitRemove(p)

LEMMA CommitKeepsAll ==
  ASSUME IInv, NEW p \in Proc, CommitAny(p), NEW j, j = job[p]
  PROVE  job[p].stage = "write" /\ Done(p) /\ Shape(j) /\ CommitKeeps(j)
         /\ UserChecked(j) /\ GroupChecked(j)
<1>1. job[p].stage = "write" /\ Done(p)
  BY DEF CommitAny, CommitCreate, CommitUpdate, CommitTouch, CommitDelete, CommitGroupCreate,
         CommitGroupUpdate, CommitGroupDelete, CommitAdd, CommitRemove, Writing
<1>2. /\ DbTypes /\ MembersKnown
      /\ Shape(j) /\ UserChecked(j) /\ GroupChecked(j)
  BY <1>1 DEF IInv, JobShape, StillTrue, Jobs, Idle
<1>3. CommitKeeps(j)
  BY <1>2, CreateKeeps, UpdateKeeps, TouchKeeps, DeleteKeeps, GroupCreateKeeps,
     GroupUpdateKeeps, GroupDeleteKeeps, AddKeeps, RemoveKeeps DEF CommitAny
<1>. QED  BY <1>1, <1>2, <1>3

-----------------------------------------------------------------------------
(* The invariant holds for every legacy database.                           *)
LEMMA InitEstablishes == Init => IInv
<1>. SUFFICES ASSUME Init PROVE IInv
  OBVIOUS
<1>1. DbTypes /\ MembersKnown
  BY DEF Init, DbTypes, MembersKnown, Pair
<1>2. \A j \in Jobs : j = Idle
  BY DEF Init, Jobs
<1>3. job = [p \in Proc |-> job[p]] /\ \A p \in Proc : job[p] = Idle
  BY DEF Init
<1>. QED  BY <1>1, <1>2, <1>3 DEF IInv, JobShape, Exclusive, StillTrue, Idle

(* Every step keeps it.                                                     *)
LEMMA StepPreserves == IInv /\ [Next]_vars => IInv'
<1>. SUFFICES ASSUME IInv, [Next]_vars PROVE IInv'
  OBVIOUS
<1>1. ASSUME NEW p \in Proc, StartCreate(p) PROVE IInv'
  <2>1. PICK u \in User, gs \in SUBSET Group :
          /\ ~UserExists(u)
          /\ \A g \in gs : GroupExists(g)
          /\ Enter(p, "create", [user |-> u, groups |-> gs], {u} \cup gs, {})
    BY <1>1 DEF StartCreate
  <2> DEFINE r == [stage |-> "write", op |-> "create", req |-> [user |-> u, groups |-> gs],
                   locks |-> {u} \cup gs, plan |-> {}]
  <2>2. Shape(r)
    BY DEF Shape, Name
  <2>3. UserChecked(r) /\ GroupChecked(r)
    BY <2>1 DEF UserChecked, GroupChecked
  <2>. QED  BY <2>1, <2>2, <2>3, EnterKeeps
<1>2. ASSUME NEW p \in Proc, StartUpdate(p) PROVE IInv'
  <2>1. PICK u \in User, v \in User \cup {None}, gs \in SUBSET Group :
          /\ v # u /\ UNCHANGED db
          /\ job' = [job EXCEPT ![p] =
               [stage |-> "lock", op |-> "update",
                req |-> [user |-> u, to |-> v, groups |-> gs],
                locks |-> {u} \cup Given(v) \cup gs \cup Groups(u)]]
    BY <1>2 DEF StartUpdate
  <2>2. PICK r : r = [stage |-> "lock", op |-> "update",
                      req |-> [user |-> u, to |-> v, groups |-> gs],
                      locks |-> {u} \cup Given(v) \cup gs \cup Groups(u)]
    OBVIOUS
  <2>3. Shape(r)
    BY <2>1, <2>2 DEF Shape, Name, Given, Groups
  <2>. QED  BY <2>1, <2>2, <2>3, TurnKeeps
<1>3. ASSUME NEW p \in Proc, EnterUpdate(p) PROVE IInv'
  <2>1. PICK j : j = job[p]
    OBVIOUS
  <2>2. /\ j.stage = "lock" /\ j.op = "update"
        /\ UserExists(j.req.user)
        /\ j.req.to # None => ~UserExists(j.req.to)
        /\ MayReplace(j.req.user, j.req.groups, j.locks)
        /\ Enter(p, "update", j.req, j.locks, {})
    BY <1>3, <2>1 DEF EnterUpdate
  <2>3. Shape(j)
    BY <2>1, <2>2 DEF IInv, JobShape, Jobs, Idle
  <2> DEFINE r == [stage |-> "write", op |-> "update", req |-> j.req,
                   locks |-> j.locks, plan |-> {}]
  <2>4. Shape(r)
    BY <2>2, <2>3 DEF Shape
  <2>5. UserChecked(r) /\ GroupChecked(r)
    BY <2>2 DEF UserChecked, GroupChecked
  <2>. QED  BY <2>2, <2>4, <2>5, EnterKeeps
<1>4. ASSUME NEW p \in Proc, StartTouch(p) PROVE IInv'
  <2>1. PICK u \in User, v \in User \cup {None} :
          /\ v # u /\ UserExists(u)
          /\ v # None => ~UserExists(v)
          /\ Enter(p, "touch", [user |-> u, to |-> v], {u} \cup Given(v), {})
    BY <1>4 DEF StartTouch
  <2> DEFINE r == [stage |-> "write", op |-> "touch", req |-> [user |-> u, to |-> v],
                   locks |-> {u} \cup Given(v), plan |-> {}]
  <2>2. Shape(r)
    BY <2>1 DEF Shape, Name, Given
  <2>3. UserChecked(r) /\ GroupChecked(r)
    BY <2>1 DEF UserChecked, GroupChecked
  <2>. QED  BY <2>1, <2>2, <2>3, EnterKeeps
<1>5. ASSUME NEW p \in Proc, StartDelete(p) PROVE IInv'
  <2>1. PICK u \in User :
          /\ UNCHANGED db
          /\ job' = [job EXCEPT ![p] =
               [stage |-> "lock", op |-> "delete", req |-> [user |-> u],
                locks |-> {u} \cup Groups(u)]]
    BY <1>5 DEF StartDelete
  <2>2. PICK r : r = [stage |-> "lock", op |-> "delete", req |-> [user |-> u],
                      locks |-> {u} \cup Groups(u)]
    OBVIOUS
  <2>3. Shape(r)
    BY <2>2 DEF Shape, Name, Groups
  <2>. QED  BY <2>1, <2>2, <2>3, TurnKeeps
<1>6. ASSUME NEW p \in Proc, EnterDelete(p) PROVE IInv'
  <2>1. PICK j : j = job[p]
    OBVIOUS
  <2>2. /\ j.stage = "lock" /\ j.op = "delete"
        /\ UserExists(j.req.user)
        /\ Groups(j.req.user) \subseteq j.locks
        /\ Enter(p, "delete", j.req, j.locks,
                 {g \in Groups(j.req.user) : LastMembership(g, j.req.user)})
    BY <1>6, <2>1 DEF EnterDelete
  <2>3. Shape(j)
    BY <2>1, <2>2 DEF IInv, JobShape, Jobs, Idle
  <2>4. PICK r : r = [stage |-> "write", op |-> "delete", req |-> j.req, locks |-> j.locks,
                      plan |-> {g \in Groups(j.req.user) : LastMembership(g, j.req.user)}]
    OBVIOUS
  <2>5. Shape(r)
    BY <2>2, <2>3, <2>4 DEF Shape
  <2>6. UserChecked(r) /\ GroupChecked(r)
    BY <2>2, <2>4 DEF UserChecked, GroupChecked
  <2>. QED  BY <2>2, <2>4, <2>5, <2>6, EnterKeeps
<1>7. ASSUME NEW p \in Proc, StartGroupCreate(p) PROVE IInv'
  <2>1. PICK g \in Group, as \in (SUBSET Table) \ {{}} :
          ~GroupExists(g) /\ Enter(p, "group_create", [group |-> g], {g}, as)
    BY <1>7 DEF StartGroupCreate
  <2> DEFINE r == [stage |-> "write", op |-> "group_create", req |-> [group |-> g],
                   locks |-> {g}, plan |-> as]
  <2>2. Shape(r)
    BY DEF Shape, Name
  <2>3. UserChecked(r) /\ GroupChecked(r)
    BY <2>1 DEF UserChecked, GroupChecked
  <2>. QED  BY <2>1, <2>2, <2>3, EnterKeeps
<1>8. ASSUME NEW p \in Proc, StartGroupUpdate(p) PROVE IInv'
  <2>1. PICK g \in Group, h \in Group \cup {None}, edit \in Edits :
          /\ h # g /\ GroupExists(g)
          /\ h # None => ~GroupExists(h)
          /\ After(edit, attrs[g]) # {} \/ Members(g) # {}
          /\ Enter(p, "group_update", [group |-> g, to |-> h, edit |-> edit],
                   {g} \cup Given(h), After(edit, attrs[g]))
    BY <1>8 DEF StartGroupUpdate
  <2>2. PICK r : r = [stage |-> "write", op |-> "group_update",
                      req |-> [group |-> g, to |-> h, edit |-> edit],
                      locks |-> {g} \cup Given(h), plan |-> After(edit, attrs[g])]
    OBVIOUS
  <2>3. After(edit, attrs[g]) \subseteq Table
    BY DEF After
  <2>4. Shape(r)
    BY <2>1, <2>2, <2>3 DEF Shape, Name, Given
  <2>5. UserChecked(r) /\ GroupChecked(r)
    BY <2>1, <2>2 DEF UserChecked, GroupChecked
  <2>. QED  BY <2>1, <2>2, <2>4, <2>5, EnterKeeps
<1>9. ASSUME NEW p \in Proc, StartGroupDelete(p) PROVE IInv'
  <2>1. PICK g \in Group : GroupExists(g) /\ Enter(p, "group_delete", [group |-> g], {g}, {})
    BY <1>9 DEF StartGroupDelete
  <2> DEFINE r == [stage |-> "write", op |-> "group_delete", req |-> [group |-> g],
                   locks |-> {g}, plan |-> {}]
  <2>2. Shape(r)
    BY DEF Shape, Name
  <2>3. UserChecked(r) /\ GroupChecked(r)
    BY <2>1 DEF UserChecked, GroupChecked
  <2>. QED  BY <2>1, <2>2, <2>3, EnterKeeps
<1>10. ASSUME NEW p \in Proc, StartAdd(p) PROVE IInv'
  <2>1. PICK g \in Group, us \in (SUBSET User) \ {{}} :
          /\ GroupExists(g)
          /\ \A u \in us : UserExists(u)
          /\ Enter(p, "add", [group |-> g], {g} \cup us, us \ Members(g))
    BY <1>10 DEF StartAdd
  <2>2. PICK r : r = [stage |-> "write", op |-> "add", req |-> [group |-> g],
                      locks |-> {g} \cup us, plan |-> us \ Members(g)]
    OBVIOUS
  <2>3. Shape(r)
    BY <2>2 DEF Shape, Name
  <2>4. UserChecked(r) /\ GroupChecked(r)
    BY <2>1, <2>2 DEF UserChecked, GroupChecked
  <2>. QED  BY <2>1, <2>2, <2>3, <2>4, EnterKeeps
<1>11. ASSUME NEW p \in Proc, StartRemove(p) PROVE IInv'
  <2>1. PICK g \in Group, us \in (SUBSET User) \ {{}} :
          /\ attrs[g] # {} \/ ~(Members(g) \subseteq us)
          /\ Enter(p, "remove", [group |-> g], {g} \cup us, us)
    BY <1>11 DEF StartRemove
  <2> DEFINE r == [stage |-> "write", op |-> "remove", req |-> [group |-> g],
                   locks |-> {g} \cup us, plan |-> us]
  <2>2. Shape(r)
    BY DEF Shape, Name
  <2>3. UserChecked(r) /\ GroupChecked(r)
    BY <2>1 DEF UserChecked, GroupChecked
  <2>. QED  BY <2>1, <2>2, <2>3, EnterKeeps
<1>12. ASSUME NEW p \in Proc, CommitAny(p) PROVE IInv'
  <2>1. PICK j : j = job[p]
    OBVIOUS
  <2>. QED  BY <1>12, <2>1, CommitKeepsAll, CommitEnds
<1>13. ASSUME NEW p \in Proc, Abort(p) PROVE IInv'
  BY <1>13, TurnKeeps DEF Abort, Done, Idle
<1>14. CASE UNCHANGED vars
  <2>1. UNCHANGED db /\ UNCHANGED job
    BY <1>14 DEF vars, db
  <2>2. DbTypes' /\ MembersKnown'
    BY <2>1 DEF IInv, db, DbTypes, MembersKnown, Groups
  <2>3. JobShape' /\ Exclusive'
    BY <2>1 DEF IInv, JobShape, Jobs, Exclusive
  <2>4. StillTrue'
    BY <2>1, CheckedUnchanged DEF IInv, StillTrue, Jobs
  <2>. QED  BY <2>2, <2>3, <2>4 DEF IInv
<1>. QED  BY <1>1, <1>2, <1>3, <1>4, <1>5, <1>6, <1>7, <1>8, <1>9, <1>10, <1>11, <1>12, <1>13, <1>14
          DEF Next, CommitAny

(* For any number of requests, users and groups, and every legacy database. *)
THEOREM DirectoryInvariant == Spec => []IInv
BY InitEstablishes, StepPreserves, PTL DEF Spec

(* Users, groups and requests are what they look like, and no two blocks    *)
(* that write share a name.                                                 *)
THEOREM TypeCorrect == Spec => []TypeOK
<1>1. IInv => TypeOK
  <2>1. SUFFICES ASSUME IInv PROVE TypeOK
    OBVIOUS
  <2>2. ASSUME NEW p \in Proc, job[p] # Idle
        PROVE  /\ job[p].req \in Request
               /\ job[p].locks \subseteq User \cup Group
               /\ job[p].stage \in {"lock", "write"}
    <3>1. job[p].stage \in {"lock", "write"} /\ Shape(job[p])
      BY <2>1, <2>2 DEF IInv, JobShape, Jobs
    <3>. QED  BY <3>1 DEF Shape, Name, Request
  <2>. QED  BY <2>1, <2>2 DEF IInv, DbTypes, Exclusive, TypeOK
<1>. QED  BY <1>1, DirectoryInvariant, PTL

-----------------------------------------------------------------------------
(* Only a commit changes the data and ends a block.                         *)
LEMMA CommitsAreCommits ==
  ASSUME IInv, [Next]_vars, NEW p \in Proc, Commits(p)
  PROVE  CommitAny(p)
<1>0. /\ job[p].stage = "write" /\ job[p] # Idle /\ job'[p] = Idle /\ db' # db
      /\ job = [q \in Proc |-> job[q]]
  BY DEF Commits, Idle, IInv, JobShape
<1>1. PICK q \in Proc :
    \/ StartCreate(q) \/ StartUpdate(q) \/ EnterUpdate(q) \/ StartTouch(q)
    \/ StartDelete(q) \/ EnterDelete(q)
    \/ StartGroupCreate(q) \/ StartGroupUpdate(q) \/ StartGroupDelete(q)
    \/ StartAdd(q) \/ StartRemove(q)
    \/ CommitAny(q)
    \/ Abort(q)
  BY <1>0 DEF Next, CommitAny, vars, db
<1>2. CommitAny(q)
  BY <1>0, <1>1 DEF StartCreate, StartUpdate, EnterUpdate, StartTouch, StartDelete, EnterDelete,
    StartGroupCreate, StartGroupUpdate, StartGroupDelete, StartAdd, StartRemove, Abort, Enter
<1>3. Done(q)
  BY <1>2, CommitKeepsAll
<1>4. q = p
  BY <1>0, <1>3 DEF Done
<1>. QED  BY <1>2, <1>4

LEMMA CommitsLogged ==
  ASSUME IInv, [Next]_vars, NEW p \in Proc, Commits(p)
  PROVE  Logged(job[p]) /\ Inherited
<1>1. PICK j : j = job[p]
  OBVIOUS
<1>2. Logged(j) /\ Inherited
  BY <1>1, CommitsAreCommits, CommitKeepsAll DEF CommitKeeps
<1>. QED  BY <1>1, <1>2

(* Groups come and go exactly with the entries in the audit log, however    *)
(* many requests add and remove members, rename and delete at once.         *)
THEOREM GroupsLogged == Spec => GroupsComeAndGoLogged
<1>1. IInv /\ [Next]_vars =>
        [\A p \in Proc : Commits(p) =>
           /\ ExistingGroups' \ ExistingGroups = Came(job[p]) \cap Group
           /\ ExistingGroups \ ExistingGroups' = Went(job[p]) \cap Group]_vars
  BY CommitsLogged DEF Logged
<1>. QED  BY <1>1, DirectoryInvariant, PTL DEF Spec, GroupsComeAndGoLogged

(* The same for users: no phantom comes back, none is lost.                 *)
THEOREM UsersLogged == Spec => UsersComeAndGoLogged
<1>1. IInv /\ [Next]_vars =>
        [\A p \in Proc : Commits(p) =>
           /\ ExistingUsers' \ ExistingUsers = Came(job[p]) \cap User
           /\ ExistingUsers \ ExistingUsers' = Went(job[p]) \cap User]_vars
  BY CommitsLogged DEF Logged
<1>. QED  BY <1>1, DirectoryInvariant, PTL DEF Spec, UsersComeAndGoLogged

(* What a PATCH for a group leaves out is what it was when it commits.      *)
THEOREM CollectionsKept == Spec => UntouchedCollectionsKept
<1> DEFINE Kept(p, t) ==
      Commits(p) /\ job[p].op = "group_update" /\ job[p].req.edit[t] = "keep" =>
        LET old == job[p].req.group
        IN t \in attrs'[Target(job[p].req, old)] <=> t \in attrs[old]
<1>1. ASSUME IInv, [Next]_vars, NEW p \in Proc, NEW t \in Table PROVE Kept(p, t)
  <2>1. SUFFICES ASSUME Commits(p), job[p].op = "group_update", job[p].req.edit[t] = "keep"
                 PROVE  LET old == job[p].req.group
                        IN t \in attrs'[Target(job[p].req, old)] <=> t \in attrs[old]
    OBVIOUS
  <2>2. PICK j : j = job[p]
    OBVIOUS
  <2>3. CommitAny(p) /\ Shape(j) /\ GroupChecked(j)
    BY <1>1, <2>1, <2>2, CommitsAreCommits, CommitKeepsAll
  <2>4. CommitGroupUpdate(p)
    BY <2>1, <2>3 DEF CommitAny, CommitCreate, CommitUpdate, CommitTouch, CommitDelete,
      CommitGroupCreate, CommitGroupDelete, CommitAdd, CommitRemove, Writing
  <2>5. j.req.group \in Group /\ Target(j.req, j.req.group) \in Group
    BY <2>1, <2>2, <2>3 DEF Shape, Target
  <2>6. attrs'[Target(j.req, j.req.group)] = j.plan
    BY <2>2, <2>4, <2>5 DEF CommitGroupUpdate
  <2>7. j.plan = After(j.req.edit, attrs[j.req.group])
    BY <2>1, <2>2, <2>3 DEF GroupChecked
  <2>. QED  BY <2>1, <2>2, <2>6, <2>7 DEF After
<1>2. IInv /\ [Next]_vars => [\A p \in Proc, t \in Table : Kept(p, t)]_vars
  BY <1>1
<1>. QED  BY <1>2, DirectoryInvariant, PTL DEF Spec, UntouchedCollectionsKept

-----------------------------------------------------------------------------
(* The rows beyond the first of each membership.                            *)
LEMMA SurplusIs ==
  ASSUME DbTypes
  PROVE  \A y : y \in Surplus <=>
           /\ y = <<y[1], y[2]>> /\ y[1] \in Pair /\ y[2] \in Nat
           /\ 2 <= y[2] /\ y[2] <= rows[y[1]]
BY DEF Surplus, DbTypes

LEMMA SurplusFinite == ASSUME DbTypes PROVE IsFiniteSet(Surplus)
<1>. DEFINE T == {{x} \X (2..rows[x]) : x \in Pair}
            f == [x \in Pair |-> {x} \X (2..rows[x])]
<1>1. IsFiniteSet(Pair)
  BY FiniteAssumption, FS_Product DEF Pair
<1>2. f \in Surjection(Pair, T)
  BY DEF Surjection
<1>3. IsFiniteSet(T)
  BY <1>1, <1>2, FS_Surjection
<1>4. ASSUME NEW x \in Pair PROVE IsFiniteSet({x} \X (2..rows[x]))
  <2>1. rows[x] \in Int
    BY DEF DbTypes
  <2>2. IsFiniteSet({x}) /\ IsFiniteSet(2..rows[x])
    <3>1. IsFiniteSet({x})
      BY FS_Singleton
    <3>2. 2 \in Int
      OBVIOUS
    <3>3. IsFiniteSet(2..rows[x])
      BY <2>1, <3>2, FS_Interval
    <3>. QED  BY <3>1, <3>3
  <2>. QED  BY <2>2, FS_Product
<1>5. \A S \in T : IsFiniteSet(S)
  BY <1>4
<1>. QED  BY <1>3, <1>5, FS_UNION DEF Surplus

LEMMA SurplusInherited ==
  ASSUME DbTypes, DbTypes', Inherited, IsFiniteSet(Surplus)
  PROVE  Cardinality(Surplus') <= Cardinality(Surplus)
<1>1. PICK f \in [Pair -> Pair] :
        /\ \A x, y \in Pair : rows'[x] > 1 /\ rows'[y] > 1 /\ f[x] = f[y] => x = y
        /\ \A x \in Pair : rows'[x] > 1 => rows[f[x]] = rows'[x]
  BY DEF Inherited
<1>. DEFINE h == [y \in Surplus' |-> <<f[y[1]], y[2]>>]
<1>2. \A y : y \in Surplus' <=>
        /\ y = <<y[1], y[2]>> /\ y[1] \in Pair /\ y[2] \in Nat
        /\ 2 <= y[2] /\ y[2] <= rows'[y[1]]
  BY DEF Surplus, DbTypes
<1>3. \A y \in Surplus' : y[1] \in Pair /\ rows'[y[1]] > 1
  <2>1. \A x \in Pair : rows'[x] \in Nat
    BY DEF DbTypes
  <2>. QED  BY <1>2, <2>1
<1>4. \A y \in Surplus' : h[y] \in Surplus
  <2>. SUFFICES ASSUME NEW y \in Surplus' PROVE <<f[y[1]], y[2]>> \in Surplus
    OBVIOUS
  <2>1. f[y[1]] \in Pair /\ rows[f[y[1]]] = rows'[y[1]]
    BY <1>1, <1>3
  <2>. QED  BY <1>2, <2>1, SurplusIs
<1>5. \A y, z \in Surplus' : h[y] = h[z] => y = z
  <2>. SUFFICES ASSUME NEW y \in Surplus', NEW z \in Surplus',
                       f[y[1]] = f[z[1]], y[2] = z[2]
                PROVE  y = z
    OBVIOUS
  <2>1. y[1] = z[1]
    BY <1>1, <1>3
  <2>. QED  BY <1>2, <2>1
<1>6. h \in Injection(Surplus', Surplus)
  BY <1>4, <1>5 DEF Injection, IsInjective
<1>. HIDE DEF h
<1>. QED  BY <1>6, FS_Injection

(* A membership the legacy data has once is never doubled, whatever         *)
(* requests add it at once: several rows are inherited, if under another    *)
(* name (add_membership, set_memberships).                                  *)
THEOREM DuplicatesInherited ==
  Spec => [][\A p \in Proc : Commits(p) => Inherited]_vars
<1>1. IInv /\ [Next]_vars => [\A p \in Proc : Commits(p) => Inherited]_vars
  BY CommitsLogged
<1>. QED  BY <1>1, DirectoryInvariant, PTL DEF Spec

(* The manager adds no duplicate to those the legacy data has: the rows     *)
(* beyond the first of each membership never become more, whatever requests *)
(* add, replace or rename at once (add_membership, set_memberships).        *)
THEOREM DuplicatesNeverGrow == Spec => NoNewDuplicates
<1>1. ASSUME IInv, [Next]_vars PROVE rows' = rows \/ Inherited
  <2>1. CASE \E p \in Proc : CommitAny(p)
    <3>1. PICK p \in Proc : CommitAny(p)
      BY <2>1
    <3>2. PICK j : j = job[p]
      OBVIOUS
    <3>. QED  BY <1>1, <3>1, <3>2, CommitKeepsAll DEF CommitKeeps
  <2>2. CASE ~\E p \in Proc : CommitAny(p)
    BY <1>1, <2>2 DEF Next, CommitAny, vars, db, StartCreate, StartUpdate, EnterUpdate, StartTouch,
       StartDelete, EnterDelete, StartGroupCreate, StartGroupUpdate, StartGroupDelete, StartAdd,
       StartRemove, Abort, Enter
  <2>. QED  BY <2>1, <2>2
<1>2. ASSUME IInv, [Next]_vars PROVE Cardinality(Surplus') <= Cardinality(Surplus)
  <2>0. DbTypes /\ DbTypes' /\ IsFiniteSet(Surplus)
    BY <1>2, StepPreserves, SurplusFinite DEF IInv
  <2>1. CASE rows' = rows
    <3>1. Surplus' = Surplus
      BY <2>1 DEF Surplus
    <3>2. Cardinality(Surplus) \in Nat
      BY <2>0, FS_CardinalityType
    <3>. QED  BY <3>1, <3>2
  <2>2. CASE Inherited
    BY <2>0, <2>2, SurplusInherited
  <2>. QED  BY <1>1, <1>2, <2>1, <2>2
<1>3. IInv /\ [Next]_vars => [Cardinality(Surplus') <= Cardinality(Surplus)]_vars
  BY <1>2
<1>. QED  BY <1>3, DirectoryInvariant, PTL DEF Spec, NoNewDuplicates

=============================================================================
