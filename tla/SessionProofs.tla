---------------------------- MODULE SessionProofs ----------------------------
(***************************************************************************)
(* Proofs about Accounts and Session, for any number of accounts, calls    *)
(* and requests.                                                           *)
(***************************************************************************)
EXTENDS Session, FiniteSetTheorems, TLAPS

-----------------------------------------------------------------------------
(* Accounts: the inductive invariant.                                      *)

\* Where a call stands says what it asks for and what it has read.
Requested ==
    \A c \in Calls :
        /\ pc[c] = "idle" => request[c].kind = "none"
        /\ pc[c] = "hashing" =>
            request[c].kind = "register" /\ request[c].email \in Emails
        /\ pc[c] = "comparing" => request[c].kind = "login"
        /\ pc[c] \in {"counting", "deleting"} =>
            request[c].kind = "delete" /\ read[c] # None

\* A token is given once, as the answer to a registration or a login.
Granted ==
    \A c \in Calls :
        /\ pc[c] # "ended" => token[c] = None /\ outcome[c] = "none"
        /\ outcome[c] = "ok" /\ request[c].kind \in {"register", "login"}
            => token[c] # None

\* Rows that a call has read or handed out.
RowsOf(c) == {read[c], token[c]} \ {None}

\* Their ids have been used, and are never given again.
Known == \A c \in Calls : \A row \in RowsOf(c) : email[row.sub] # None

\* Their roles are the rows', unless SQL has changed them.
Faithful ==
    \A c \in Calls \ restated : \A row \in RowsOf(c) :
        row.sub \in users => row.role = role[row.sub]

\* A deletion that has passed its checks, and lost no administrator since,
\* leaves another one.
NotTheLast ==
    \A c \in Passed \ overtaken :
        read[c].sub \in Admins => \E v \in Admins : v # read[c].sub

AccountsInv ==
    /\ AccountsTypeOK
    /\ Requested
    /\ Granted
    /\ Known
    /\ Faithful
    /\ OneAccountPerAddress
    /\ NotTheLast

-----------------------------------------------------------------------------
\* What a form, a removal and the empty request are.
LEMMA RequestFields ==
    ASSUME NEW q \in Requests
    PROVE  /\ q.kind \in {"none", "register", "login", "delete"}
           /\ q.kind \in {"register", "login"} => q.email \in Emails
           /\ q.kind = "delete" => q.with \in Calls /\ q.target \in Users
BY DEF Requests, NoRequest, Form, Removal

\* A deletion is refused with an outcome, or concerns an account that exists.
LEMMA DeleteAnswers ==
    ASSUME NEW t, NEW u
    PROVE  /\ DeleteRefused(t, u) \in Outcomes
           /\ DeleteRefused(t, u) = "none" => u \in users
           /\ DeleteRefused(t, u) # "ok"
BY DEF DeleteRefused, Outcomes

\* A step of the server keeps every type.
LEMMA TypeKept ==
    ASSUME AccountsInv, AccountsNext
    PROVE  AccountsTypeOK'
<1> USE AccountsAssumption DEF AccountsInv, AccountsTypeOK, accountVars,
        tableVars, callVars, historyVars, Goto, Answer, Outcomes
<1>1. ASSUME NEW c \in Calls, NEW q \in Requests, Send(c, q)
      PROVE  AccountsTypeOK'
      BY <1>1 DEF Send
<1>2. ASSUME NEW c \in Calls, RegisterLookup(c)
      PROVE  AccountsTypeOK'
      BY <1>2 DEF RegisterLookup
<1>3. ASSUME NEW c \in Calls, Register(c)
      PROVE  AccountsTypeOK'
      BY <1>3 DEF Register, AddRow, Requested, Roles, Claims
<1>4. ASSUME NEW c \in Calls, RegisterTaken(c) \/ LoginRefused(c)
      PROVE  AccountsTypeOK'
      BY <1>4 DEF RegisterTaken, LoginRefused
<1>5. ASSUME NEW c \in Calls, RegisterUnacked(c)
      PROVE  AccountsTypeOK'
      BY <1>5 DEF RegisterUnacked, AddRow, Requested, Roles
<1>6. ASSUME NEW c \in Calls, LoginLookup(c)
      PROVE  AccountsTypeOK'
  <2> DEFINE R == RowsWith(request[c].email)
             u == CHOOSE v \in R : TRUE
  <2>1. R # {} => u \in Users
        BY DEF RowsWith
  <2>2. (IF R = {} THEN None ELSE Row(u)) \in Claims \cup {None}
        BY <2>1 DEF Row, Claims
  <2> QED  BY <1>6, <2>2 DEF LoginLookup
<1>7. ASSUME NEW c \in Calls, Login(c)
      PROVE  AccountsTypeOK'
      BY <1>7 DEF Login, ClaimsOf
<1>8. ASSUME NEW c \in Calls, DeleteLookup(c)
      PROVE  AccountsTypeOK'
      BY <1>8, DeleteAnswers DEF DeleteLookup, Row, Claims
<1>9. ASSUME NEW c \in Calls, CountAdmins(c) \/ DatabaseFails(c)
      PROVE  AccountsTypeOK'
      BY <1>9 DEF CountAdmins, DatabaseFails
<1>10. ASSUME NEW c \in Calls, DeleteUser(c)
       PROVE  AccountsTypeOK'
       BY <1>10 DEF DeleteUser, Passed
<1>11. ASSUME NEW u \in Users, NEW r \in Roles, SetRole(u, r)
       PROVE  AccountsTypeOK'
       BY <1>11 DEF SetRole, Passed
<1>12. ASSUME NEW t \in Calls, Expire(t)
       PROVE  AccountsTypeOK'
       BY <1>12 DEF Expire, Valid
<1>13. \A k \in {"register", "login"}, e \in Emails : Form(k, e) \in Requests
       BY DEF Requests
<1>14. \A t \in Calls, u \in Users : Removal(t, u) \in Requests
       BY DEF Requests
<1> QED  BY <1>1, <1>2, <1>3, <1>4, <1>5, <1>6, <1>7, <1>8, <1>9, <1>10,
            <1>11, <1>12, <1>13, <1>14
         DEF AccountsNext, Background, Remove, Serve, Tokens

\* Where a call stands keeps saying what it asks for.
LEMMA RequestedKept ==
    ASSUME AccountsInv, AccountsNext
    PROVE  Requested'
<1> USE DEF AccountsInv, AccountsTypeOK, Requested, accountVars,
        tableVars, callVars, historyVars, Goto, Answer, Asks
<1>1. ASSUME NEW c \in Calls, NEW q, Send(c, q)
      PROVE  Requested'
      BY <1>1 DEF Send
<1>2. ASSUME NEW c \in Calls, RegisterLookup(c)
      PROVE  Requested'
      BY <1>2, RequestFields DEF RegisterLookup
<1>3. ASSUME NEW c \in Calls,
             \/ Register(c)
             \/ RegisterTaken(c)
             \/ RegisterUnacked(c)
             \/ Login(c)
             \/ LoginRefused(c)
             \/ DatabaseFails(c)
             \/ DeleteUser(c)
      PROVE  Requested'
      BY <1>3 DEF Register, RegisterTaken, RegisterUnacked, Login,
                  LoginRefused, DatabaseFails, DeleteUser
<1>4. ASSUME NEW c \in Calls, LoginLookup(c)
      PROVE  Requested'
      BY <1>4 DEF LoginLookup
<1>5. ASSUME NEW c \in Calls, DeleteLookup(c)
      PROVE  Requested'
  <2>1. Row(request[c].target) # None
        BY AccountsAssumption, <1>5, RequestFields, DeleteAnswers
        DEF DeleteLookup, Row, Claims
  <2> QED  BY <1>5, <2>1 DEF DeleteLookup
<1>6. ASSUME NEW c \in Calls, CountAdmins(c)
      PROVE  Requested'
      BY <1>6 DEF CountAdmins
<1>7. ASSUME NEW u \in Users, NEW r \in Roles, SetRole(u, r)
      PROVE  Requested'
      BY <1>7 DEF SetRole
<1>8. ASSUME NEW t \in Calls, Expire(t)
      PROVE  Requested'
      BY <1>8 DEF Expire
<1> QED  BY <1>1, <1>2, <1>3, <1>4, <1>5, <1>6, <1>7, <1>8
         DEF AccountsNext, Background, Remove, Serve

\* A token is given once.
LEMMA GrantedKept ==
    ASSUME AccountsInv, AccountsNext
    PROVE  Granted'
<1> USE AccountsAssumption
    DEF AccountsInv, AccountsTypeOK, Requested, Granted, accountVars,
        tableVars, callVars, historyVars, Goto, Answer, Asks
<1>1. ASSUME NEW c \in Calls, NEW q, Send(c, q)
      PROVE  Granted'
      BY <1>1 DEF Send
<1>2. ASSUME NEW c \in Calls, RegisterLookup(c)
      PROVE  Granted'
      BY <1>2 DEF RegisterLookup
<1>3. ASSUME NEW c \in Calls, Register(c)
      PROVE  Granted'
      BY <1>3 DEF Register, Claims, Roles
<1>4. ASSUME NEW c \in Calls,
             RegisterTaken(c) \/ RegisterUnacked(c) \/ DatabaseFails(c)
      PROVE  Granted'
      BY <1>4 DEF RegisterTaken, RegisterUnacked, DatabaseFails
<1>5. ASSUME NEW c \in Calls, LoginLookup(c) \/ LoginRefused(c)
      PROVE  Granted'
      BY <1>5 DEF LoginLookup, LoginRefused
<1>6. ASSUME NEW c \in Calls, Login(c)
      PROVE  Granted'
      BY <1>6 DEF Login, ClaimsOf
<1>7. ASSUME NEW c \in Calls, DeleteLookup(c)
      PROVE  Granted'
      BY <1>7, DeleteAnswers DEF DeleteLookup
<1>8. ASSUME NEW c \in Calls, CountAdmins(c) \/ DeleteUser(c)
      PROVE  Granted'
      BY <1>8 DEF CountAdmins, DeleteUser
<1>9. ASSUME NEW u \in Users, NEW r \in Roles, SetRole(u, r)
      PROVE  Granted'
      BY <1>9 DEF SetRole
<1>10. ASSUME NEW t \in Calls, Expire(t)
       PROVE  Granted'
       BY <1>10 DEF Expire
<1> QED  BY <1>1, <1>2, <1>3, <1>4, <1>5, <1>6, <1>7, <1>8, <1>9, <1>10
         DEF AccountsNext, Background, Remove, Serve

-----------------------------------------------------------------------------
\* An id that is given to a new row was nobody's.
LEMMA NewRow ==
    ASSUME AccountsTypeOK, NEW c \in Calls, NEW u \in Users, AddRow(c, u),
           request[c].email \in Emails
    PROVE  /\ u \notin users
           /\ users' = users \cup {u}
           /\ email'[u] = request[c].email /\ email'[u] # None
           /\ role'[u] = "user"
           /\ \A v \in Users \ {u} : email'[v] = email[v] /\ role'[v] = role[v]
           /\ Admins' = Admins
<1>1. /\ u \notin users
      /\ users' = users \cup {u}
      /\ email'[u] = request[c].email /\ email'[u] # None
      /\ role'[u] = "user"
      /\ \A v \in Users \ {u} : email'[v] = email[v] /\ role'[v] = role[v]
      BY AccountsAssumption DEF AddRow, AccountsTypeOK
<1> QED  BY <1>1 DEF Admins, AccountsTypeOK

\* The ids that calls hold have been used.
LEMMA KnownKept ==
    ASSUME AccountsInv, AccountsNext
    PROVE  Known'
<1> USE AccountsAssumption
    DEF AccountsInv, AccountsTypeOK, Known, RowsOf, Claims, accountVars,
        tableVars, callVars, historyVars, Goto, Answer
<1>1. ASSUME NEW c \in Calls, NEW q, Send(c, q)
      PROVE  Known'
      BY <1>1 DEF Send
<1>2. ASSUME NEW c \in Calls,
             \/ RegisterLookup(c)
             \/ RegisterTaken(c)
             \/ LoginRefused(c)
             \/ CountAdmins(c)
             \/ DeleteUser(c)
             \/ DatabaseFails(c)
      PROVE  Known'
      BY <1>2 DEF RegisterLookup, RegisterTaken, LoginRefused, CountAdmins,
                  DeleteUser, DatabaseFails
<1>3. ASSUME NEW c \in Calls, Register(c) \/ RegisterUnacked(c)
      PROVE  Known'
  <2>1. request[c].email \in Emails
        BY <1>3 DEF Register, RegisterUnacked, Requested
  <2>2. PICK u \in Users :
            /\ AddRow(c, u)
            /\ token' = [token EXCEPT ![c] = [sub |-> u, role |-> "user"]]
               \/ UNCHANGED token
        BY <1>3 DEF Register, RegisterUnacked
  <2>3. email'[u] # None /\ \A v \in Users \ {u} : email'[v] = email[v]
        BY <2>1, <2>2, NewRow
  <2>4. UNCHANGED read
        BY <1>3 DEF Register, RegisterUnacked
  <2> QED  BY <2>2, <2>3, <2>4
<1>4. ASSUME NEW c \in Calls, LoginLookup(c)
      PROVE  Known'
  <2> DEFINE R == RowsWith(request[c].email)
  <2>1. \A u \in R : u \in users
        BY DEF RowsWith
  <2>2. R # {} => email[Row(CHOOSE u \in R : TRUE).sub] # None
        BY <2>1 DEF Row
  <2> QED  BY <1>4, <2>2 DEF LoginLookup
<1>5. ASSUME NEW c \in Calls, Login(c)
      PROVE  Known'
      BY <1>5 DEF Login, ClaimsOf
<1>6. ASSUME NEW c \in Calls, DeleteLookup(c)
      PROVE  Known'
      BY <1>6, DeleteAnswers DEF DeleteLookup, Row
<1>7. ASSUME NEW u \in Users, NEW r \in Roles, SetRole(u, r)
      PROVE  Known'
      BY <1>7 DEF SetRole
<1>8. ASSUME NEW t \in Calls, Expire(t)
      PROVE  Known'
      BY <1>8 DEF Expire
<1> QED  BY <1>1, <1>2, <1>3, <1>4, <1>5, <1>6, <1>7, <1>8
         DEF AccountsNext, Background, Remove, Serve

\* An address keeps to one account.
LEMMA AddressesKept ==
    ASSUME AccountsInv, AccountsNext
    PROVE  OneAccountPerAddress'
<1> USE DEF AccountsInv, OneAccountPerAddress
<1>1. ASSUME NEW c \in Calls, Register(c) \/ RegisterUnacked(c)
      PROVE  OneAccountPerAddress'
  <2>1. request[c].email \in Emails
        BY <1>1 DEF Register, RegisterUnacked, Requested
  <2>2. \A v \in users : email[v] # request[c].email
        BY <1>1 DEF Register, RegisterUnacked, Taken, RowsWith
  <2>3. PICK u \in Users : AddRow(c, u)
        BY <1>1 DEF Register, RegisterUnacked
  <2>4. /\ users' = users \cup {u} /\ u \notin users
        /\ email'[u] = request[c].email
        /\ \A v \in Users \ {u} : email'[v] = email[v]
        BY <2>1, <2>3, NewRow
  <2> QED  BY <2>2, <2>4 DEF AccountsTypeOK
<1>2. ASSUME users' \subseteq users, UNCHANGED email
      PROVE  OneAccountPerAddress'
      BY <1>2
<1> QED  BY <1>1, <1>2
         DEF AccountsNext, Background, Remove, Serve, Send, RegisterLookup,
             RegisterTaken, LoginLookup, Login, LoginRefused, DeleteLookup,
             CountAdmins, DeleteUser, DatabaseFails, SetRole, Expire,
             tableVars

\* What calls hold of a row keeps agreeing with it.
LEMMA FaithfulKept ==
    ASSUME AccountsInv, AccountsNext
    PROVE  Faithful'
<1> USE AccountsAssumption
    DEF AccountsInv, AccountsTypeOK, Faithful, RowsOf, Claims, accountVars,
        tableVars, callVars, historyVars, Goto, Answer
<1>1. ASSUME NEW c \in Calls, NEW q, Send(c, q)
      PROVE  Faithful'
      BY <1>1 DEF Send
<1>2. ASSUME NEW c \in Calls,
             \/ RegisterLookup(c)
             \/ RegisterTaken(c)
             \/ LoginRefused(c)
             \/ CountAdmins(c)
             \/ DeleteUser(c)
             \/ DatabaseFails(c)
      PROVE  Faithful'
      BY <1>2 DEF RegisterLookup, RegisterTaken, LoginRefused, CountAdmins,
                  DeleteUser, DatabaseFails
<1>3. ASSUME NEW c \in Calls, Register(c) \/ RegisterUnacked(c)
      PROVE  Faithful'
  <2>1. request[c].email \in Emails
        BY <1>3 DEF Register, RegisterUnacked, Requested
  <2>2. PICK u \in Users :
            /\ AddRow(c, u)
            /\ token' = [token EXCEPT ![c] = [sub |-> u, role |-> "user"]]
               \/ UNCHANGED token
        BY <1>3 DEF Register, RegisterUnacked
  <2>3. /\ users' = users \cup {u}
        /\ role'[u] = "user"
        /\ \A v \in Users \ {u} : role'[v] = role[v]
        /\ email[u] = None
        BY <2>1, <2>2, NewRow DEF AddRow
  <2>4. UNCHANGED <<read, restated>>
        BY <1>3 DEF Register, RegisterUnacked
  <2>5. \A d \in Calls : \A row \in RowsOf(d) : row.sub # u
        BY <2>3 DEF Known
  <2> QED  BY <2>2, <2>3, <2>4, <2>5
<1>4. ASSUME NEW c \in Calls, LoginLookup(c)
      PROVE  Faithful'
  <2> DEFINE R == RowsWith(request[c].email)
             row == IF R = {} THEN None ELSE Row(CHOOSE u \in R : TRUE)
  <2>1. row # None => row.role = role[row.sub]
        BY DEF Row
  <2>2. read' = [read EXCEPT ![c] = row]
        BY <1>4 DEF LoginLookup
  <2>3. UNCHANGED <<users, role, token, restated>>
        BY <1>4 DEF LoginLookup
  <2> HIDE DEF row
  <2> QED  BY <2>1, <2>2, <2>3
<1>5. ASSUME NEW c \in Calls, Login(c)
      PROVE  Faithful'
      BY <1>5 DEF Login, ClaimsOf
<1>6. ASSUME NEW c \in Calls, DeleteLookup(c)
      PROVE  Faithful'
      BY <1>6 DEF DeleteLookup, Row
<1>7. ASSUME NEW u \in Users, NEW r \in Roles, SetRole(u, r)
      PROVE  Faithful'
      BY <1>7 DEF SetRole, SubjectsOf
<1>8. ASSUME NEW t \in Calls, Expire(t)
      PROVE  Faithful'
      BY <1>8 DEF Expire
<1> QED  BY <1>1, <1>2, <1>3, <1>4, <1>5, <1>6, <1>7, <1>8
         DEF AccountsNext, Background, Remove, Serve

-----------------------------------------------------------------------------
\* Two administrators were counted: one is not the target.
LEMMA AnotherAdmin ==
    ASSUME AccountsTypeOK, NEW s, ~IsLast(Cardinality(Admins))
    PROVE  \E v \in Admins : v # s
<1> SUFFICES ASSUME Admins \subseteq {s}
             PROVE  FALSE
    OBVIOUS
<1>1. IsFiniteSet({s}) /\ Cardinality({s}) = 1
      BY FS_Singleton
<1>2. Cardinality(Admins) <= 1
      BY <1>1, FS_Subset
<1> QED  BY <1>2 DEF IsLast

\* A deletion that ran alone keeps leaving another administrator.
LEMMA NotTheLastKept ==
    ASSUME AccountsInv, AccountsNext
    PROVE  NotTheLast'
<1> USE DEF AccountsInv, AccountsTypeOK, NotTheLast, Passed, accountVars,
        tableVars, callVars, historyVars, Goto, Answer
<1>1. ASSUME NEW c \in Calls,
             \/ \E q : Send(c, q)
             \/ RegisterLookup(c)
             \/ RegisterTaken(c)
             \/ LoginLookup(c)
             \/ Login(c)
             \/ LoginRefused(c)
             \/ DatabaseFails(c)
      PROVE  NotTheLast'
  <2>1. UNCHANGED <<Admins, overtaken>>
        BY <1>1 DEF Send, RegisterLookup, RegisterTaken, LoginLookup, Login,
                    LoginRefused, DatabaseFails, Admins
  <2>2. Passed' \subseteq Passed /\ \A d \in Passed' : read'[d] = read[d]
        BY <1>1 DEF Send, RegisterLookup, RegisterTaken, LoginLookup, Login,
                    LoginRefused, DatabaseFails, Asks
  <2> QED  BY <2>1, <2>2
<1>2. ASSUME NEW c \in Calls, Register(c) \/ RegisterUnacked(c)
      PROVE  NotTheLast'
  <2>1. request[c].email \in Emails
        BY <1>2 DEF Register, RegisterUnacked, Requested
  <2>2. PICK u \in Users : AddRow(c, u)
        BY <1>2 DEF Register, RegisterUnacked
  <2>3. UNCHANGED <<Admins, overtaken, read>>
        BY <1>2, <2>1, <2>2, NewRow DEF Register, RegisterUnacked
  <2>4. Passed' \subseteq Passed
        BY <1>2 DEF Register, RegisterUnacked
  <2> QED  BY <2>3, <2>4
<1>3. ASSUME NEW c \in Calls, DeleteLookup(c)
      PROVE  NotTheLast'
  <2>1. UNCHANGED <<Admins, overtaken>>
        BY <1>3 DEF DeleteLookup, Admins
  <2>2. \A d \in Passed' \ {c} : d \in Passed /\ read'[d] = read[d]
        BY <1>3 DEF DeleteLookup
  <2>3. c \in Passed' => read'[c].sub \notin Admins
        BY <1>3, DeleteAnswers DEF DeleteLookup, Row, Admins, Asks
  <2> QED  BY <2>1, <2>2, <2>3
<1>4. ASSUME NEW c \in Calls, CountAdmins(c)
      PROVE  NotTheLast'
  <2>1. UNCHANGED <<Admins, overtaken, read>>
        BY <1>4 DEF CountAdmins, Admins
  <2>2. \A d \in Passed' \ {c} : d \in Passed
        BY <1>4 DEF CountAdmins
  <2>3. c \in Passed' => ~IsLast(Cardinality(Admins))
        BY <1>4 DEF CountAdmins
  <2> QED  BY <2>1, <2>2, <2>3, AnotherAdmin
<1>5. ASSUME NEW c \in Calls, DeleteUser(c)
      PROVE  NotTheLast'
  <2>1. Passed' \subseteq Passed \ {c} /\ UNCHANGED read
        BY <1>5 DEF DeleteUser
  <2>2. CASE read[c].sub \in Admins
        BY <1>5, <2>1, <2>2 DEF DeleteUser
  <2>3. CASE read[c].sub \notin Admins
    <3>1. UNCHANGED <<Admins, overtaken>>
          BY <1>5, <2>3 DEF DeleteUser, Admins
    <3> QED  BY <2>1, <3>1
  <2> QED  BY <2>2, <2>3
<1>6. ASSUME NEW u \in Users, NEW r \in Roles, SetRole(u, r)
      PROVE  NotTheLast'
      BY <1>6 DEF SetRole
<1>7. ASSUME NEW t \in Calls, Expire(t)
      PROVE  NotTheLast'
      BY <1>7 DEF Expire, Admins
<1> QED  BY <1>1, <1>2, <1>3, <1>4, <1>5, <1>6, <1>7
         DEF AccountsNext, Background, Remove, Serve

-----------------------------------------------------------------------------
(* Accounts: the theorems.                                                 *)

\* The first states have the invariant.
LEMMA AccountsStart == AccountsInit => AccountsInv
<1> SUFFICES ASSUME AccountsInit
             PROVE  AccountsInv
    OBVIOUS
<1> USE AccountsAssumption DEF AccountsInit
<1>1. \A c \in Calls : token[c] # None => \E u \in users : token[c] = Row(u)
      BY DEF Row
<1>2. AccountsTypeOK
      BY <1>1 DEF AccountsTypeOK, Requests, Outcomes, Row, Claims
<1>3. Requested /\ Granted
      BY DEF Requested, Granted, NoRequest
<1>4. Known /\ Faithful
      BY <1>1 DEF Known, Faithful, RowsOf, Row
<1>5. OneAccountPerAddress /\ NotTheLast
      BY DEF OneAccountPerAddress, NotTheLast, Passed
<1> QED  BY <1>2, <1>3, <1>4, <1>5 DEF AccountsInv

\* Every step keeps it.
LEMMA AccountsStep ==
    ASSUME AccountsInv, [AccountsNext]_accountVars
    PROVE  AccountsInv'
<1>1. CASE AccountsNext
      BY <1>1, TypeKept, RequestedKept, GrantedKept, KnownKept, FaithfulKept,
         AddressesKept, NotTheLastKept
      DEF AccountsInv
<1>2. CASE UNCHANGED accountVars
      BY <1>2
      DEF accountVars, tableVars, callVars, historyVars, AccountsInv,
          AccountsTypeOK, Requested, Granted, Known, Faithful, RowsOf,
          OneAccountPerAddress, NotTheLast, Passed, Admins
<1> QED  BY <1>1, <1>2

\* What calls know of accounts is right at all times, however registrations,
\* logins and deletions overlap.
THEOREM AccountsInvariant == AccountsSpec => []AccountsInv
BY AccountsStart, AccountsStep, PTL DEF AccountsSpec

\* The tables, the calls and the tokens have their types.
THEOREM AccountsTypeCorrect == AccountsSpec => []AccountsTypeOK
<1>1. AccountsInv => AccountsTypeOK
      BY DEF AccountsInv
<1> QED  BY <1>1, AccountsInvariant, PTL

\* Registrations that race for an address never give it to two accounts.
THEOREM AddressesUnique == AccountsSpec => []OneAccountPerAddress
<1>1. AccountsInv => OneAccountPerAddress
      BY DEF AccountsInv
<1> QED  BY <1>1, AccountsInvariant, PTL

\* The role in a token is its account's, unless SQL has changed it.
THEOREM ClaimsCurrent == AccountsSpec => []ClaimsAreCurrent
<1>1. AccountsInv => ClaimsAreCurrent
      BY DEF AccountsInv, Faithful, RowsOf, ClaimsAreCurrent, Tokens
<1> QED  BY <1>1, AccountsInvariant, PTL

\* The last administrator is taken only by a deletion that another one, or an
\* operator, has overtaken.
THEOREM LastAdminKept == AccountsSpec => LastAdminStays
<1> DEFINE Left ==
        Admins # {} /\ Admins' = {}
            => \E c \in overtaken : pc[c] = "deleting" /\ pc'[c] = "ended"
<1>1. ASSUME AccountsInv, AccountsNext, Admins # {}, Admins' = {}
      PROVE  \E c \in overtaken : pc[c] = "deleting" /\ pc'[c] = "ended"
  <2> USE DEF AccountsInv, AccountsTypeOK
  <2>1. CASE \E c \in Calls : DeleteUser(c)
    <3>1. PICK c \in Calls : DeleteUser(c)
          BY <2>1
    <3>2. \A v \in Admins : v = read[c].sub
          BY <1>1, <3>1 DEF DeleteUser, Admins
    <3>3. c \in overtaken
          BY <1>1, <3>1, <3>2 DEF DeleteUser, NotTheLast, Passed
    <3>4. pc[c] = "deleting" /\ pc'[c] = "ended"
          BY <1>1, <3>1 DEF DeleteUser, Answer, Goto
    <3> QED  BY <3>3, <3>4
  <2>2. CASE \E u \in Users, r \in Roles : SetRole(u, r)
        BY <1>1, <2>2 DEF SetRole, Admins
  <2>3. CASE \E c \in Calls : Register(c) \/ RegisterUnacked(c)
    <3>1. PICK c \in Calls, u \in Users :
              AddRow(c, u) /\ request[c].email \in Emails
          BY <1>1, <2>3 DEF Register, RegisterUnacked, Requested
    <3> QED  BY <1>1, <3>1, NewRow
  <2>4. CASE UNCHANGED tableVars
        BY <1>1, <2>4 DEF tableVars, Admins
  <2> QED  BY <1>1, <2>1, <2>2, <2>3, <2>4
           DEF AccountsNext, Background, Remove, Serve, Send, RegisterLookup,
               RegisterTaken, LoginLookup, Login, LoginRefused, DeleteLookup,
               CountAdmins, DatabaseFails, Expire
<1>2. AccountsInv /\ [AccountsNext]_accountVars => [Left]_accountVars
      BY <1>1
<1>3. AccountsSpec => [][Left]_accountVars
      BY <1>2, AccountsInvariant, PTL DEF AccountsSpec
<1> QED  BY <1>3 DEF LastAdminStays

-----------------------------------------------------------------------------
(* Session over Accounts.                                                  *)

\* A step of the tab and the server is a step of Accounts, or changes nothing
\* there.
LEMMA SessionSteps ==
    ASSUME [Next]_vars
    PROVE  [AccountsNext]_accountVars
<1>1. CASE \E c \in Calls, k \in {"register", "login"}, e \in Emails :
                Submit(c, k, e)
      BY <1>1 DEF Submit, AccountsNext
<1> QED  BY <1>1
         DEF Next, ServerStep, TabStep, AccountsNext, vars, RefreshFlags,
             Reload, Logout, AskPage, SignedIn, NotSignedIn, Respond,
             MeAnswered, FlagsAnswered, Ignored, SessionExpired

\* The server behind the tab is that of Accounts: what is proved of its calls
\* holds of those the tab makes.
THEOREM SessionIsOfAccounts == Spec => AccountsSpec
<1>1. Init => AccountsInit
      BY DEF Init
<1> QED  BY <1>1, SessionSteps, PTL DEF Spec, AccountsSpec

\* The tab waits for logins and registrations alone.
FormsSubmitted ==
    \A c \in submitted : request[c].kind \in {"register", "login"}

\* An answer of /me is about the account of the token it was asked with.
Truthful ==
    \A r \in requests :
        /\ r.with \in Tokens \cup {None}
        /\ r.kind = "me" => r.with # None /\ r.answer # Success
        /\ r.kind = "me" /\ r.answer \in {Profile(x) : x \in Claims} =>
            /\ r.answer.user.sub = token[r.with].sub
            /\ r.with \notin restated
                => r.answer.user.role = token[r.with].role
        /\ r.answer = Unauthorized => r.with # None

\* The guard waits for the session that is open.
Guarded == me \in {None, session}

\* One refresh is in flight at most, and is the open session's unless joined.
OneRefresh ==
    \A r \in requests : r.kind = "flags" =>
        /\ refreshing
        /\ misses = {} => r.with = session
        /\ \A s \in requests : s.kind = "flags" => s = r

SessionInv ==
    /\ AccountsInv
    /\ SessionTypeOK
    /\ FormsSubmitted
    /\ Truthful
    /\ Guarded
    /\ OneRefresh
    /\ UserIsTheTokens
    /\ FlagsAreTheSessions

-----------------------------------------------------------------------------
\* Tokens are never taken back, nor changed; a request is sent once.
LEMMA AccountsKeep ==
    ASSUME AccountsInv, [AccountsNext]_accountVars
    PROVE  /\ \A t \in Tokens : t \in Tokens' /\ token'[t] = token[t]
           /\ restated \subseteq restated'
           /\ \A c \in Calls : request[c].kind # "none" =>
                request'[c] = request[c]
<1> USE DEF AccountsInv, AccountsTypeOK, Requested, Granted, Tokens,
        accountVars, tableVars, callVars, historyVars
<1>1. ASSUME NEW c \in Calls, NEW q, Send(c, q)
      PROVE  UNCHANGED <<token, restated>>
             /\ \A d \in Calls : request[d].kind # "none" =>
                    request'[d] = request[d]
      BY <1>1 DEF Send
<1>2. ASSUME NEW c \in Calls, Register(c)
      PROVE  /\ UNCHANGED <<request, restated>>
             /\ \A t \in Tokens : t \in Tokens' /\ token'[t] = token[t]
      BY <1>2 DEF Register
<1>3. ASSUME NEW c \in Calls, Login(c)
      PROVE  /\ UNCHANGED <<request, restated>>
             /\ \A t \in Tokens : t \in Tokens' /\ token'[t] = token[t]
      BY <1>3 DEF Login
<1>4. ASSUME UNCHANGED <<request, token, restated>>
      PROVE  /\ \A t \in Tokens : t \in Tokens' /\ token'[t] = token[t]
             /\ restated \subseteq restated'
             /\ request' = request
      BY <1>4
<1>5. ASSUME NEW u \in Users, NEW r \in Roles, SetRole(u, r)
      PROVE  UNCHANGED <<request, token>> /\ restated \subseteq restated'
      BY <1>5 DEF SetRole
<1> QED  BY <1>1, <1>2, <1>3, <1>4, <1>5
         DEF AccountsNext, Background, Remove, Serve, RegisterLookup,
             RegisterTaken, RegisterUnacked, LoginLookup, LoginRefused,
             DeleteLookup, CountAdmins, DeleteUser, DatabaseFails, Expire

\* A step of the server alone keeps what is known of the tab.
LEMMA ServerKeeps ==
    ASSUME SessionInv, ServerStep
    PROVE  SessionInv'
<1>1. AccountsNext
      BY DEF ServerStep, AccountsNext
<1>2. AccountsInv'
      BY <1>1, AccountsStep DEF SessionInv
<1>3. /\ \A t \in Tokens : t \in Tokens' /\ token'[t] = token[t]
      /\ restated \subseteq restated'
      /\ \A c \in Calls : request[c].kind # "none" => request'[c] = request[c]
      BY <1>1, AccountsKeep DEF SessionInv
<1>4. /\ UNCHANGED <<session, shown, validating, me, submitted, requests>>
      /\ UNCHANGED <<refreshing, flagsOf, misses>>
      BY DEF ServerStep, tabVars, authVars, flagVars
<1>5. SessionTypeOK'
      BY <1>3, <1>4 DEF SessionInv, SessionTypeOK
<1>6. FormsSubmitted'
      BY <1>3, <1>4 DEF SessionInv, SessionTypeOK, FormsSubmitted
<1>7. Truthful'
      BY <1>3, <1>4 DEF SessionInv, Truthful
<1>8. UserIsTheTokens'
      BY <1>3, <1>4 DEF SessionInv, SessionTypeOK, UserIsTheTokens
<1>9. Guarded' /\ OneRefresh' /\ FlagsAreTheSessions'
      BY <1>4 DEF SessionInv, Guarded, OneRefresh, FlagsAreTheSessions
<1> QED  BY <1>2, <1>5, <1>6, <1>7, <1>8, <1>9 DEF SessionInv

-----------------------------------------------------------------------------
\* Answers are told apart by their kind, and a profile holds its row.
LEMMA AnswerKinds ==
    /\ Pending # Failed /\ Pending # Unauthorized /\ Pending # Success
    /\ Failed # Unauthorized /\ Failed # Success /\ Unauthorized # Success
    /\ \A x : /\ Profile(x) \notin {Pending, Failed, Unauthorized, Success}
              /\ Profile(x).user = x
BY DEF Pending, Failed, Unauthorized, Success, Profile

\* A request that is asked is a request of the pages.
LEMMA AskFields ==
    ASSUME NEW k \in {"me", "flags", "page"}, NEW t \in Calls \cup {None}
    PROVE  /\ Ask(k, t) \in PageRequests
           /\ Ask(k, t).kind = k
           /\ Ask(k, t).with = t
           /\ Ask(k, t).answer = Pending
BY DEF Ask, PageRequests, Answers

\* A request that is answered keeps everything else.
LEMMA AnsweredFields ==
    ASSUME NEW r \in PageRequests, NEW a \in Answers
    PROVE  /\ [r EXCEPT !.answer = a] \in PageRequests
           /\ [r EXCEPT !.answer = a].kind = r.kind
           /\ [r EXCEPT !.answer = a].with = r.with
           /\ [r EXCEPT !.answer = a].answer = a
BY DEF PageRequests

\* What the server replies is true when it does.
LEMMA RepliesAreTrue ==
    ASSUME SessionInv, NEW r \in requests, NEW a \in Replies(r)
    PROVE  /\ a \in Answers
           /\ r.kind = "me" => a # Success
           /\ r.kind = "me" /\ a \in {Profile(x) : x \in Claims} =>
                /\ a.user.sub = token[r.with].sub
                /\ r.with \notin restated =>
                     a.user.role = token[r.with].role
           /\ a = Unauthorized => r.with # None
<1> DEFINE t == r.with
<1> USE DEF SessionInv, Truthful
<1>1. CASE a \in {Failed, Success}
      BY <1>1, AnswerKinds DEF Replies, Answers, Valid
<1>2. CASE a = Unauthorized
  <2>1. t # None
        BY <1>2, AccountsAssumption, AnswerKinds DEF Replies, Tokens
  <2> QED  BY <1>2, <2>1, AnswerKinds DEF Answers
<1>3. CASE /\ r.kind = "me" /\ token[t].sub \in users
           /\ a = Profile(Row(token[t].sub))
  <2>1. t \in Calls /\ token[t] \in Claims
        BY <1>3 DEF Tokens, AccountsInv, AccountsTypeOK
  <2>2. Row(token[t].sub) \in Claims
        BY <2>1 DEF Row, Claims, AccountsInv, AccountsTypeOK
  <2>3. t \notin restated => token[t].role = role[token[t].sub]
        BY <1>3, <2>1 DEF Tokens, AccountsInv, Faithful, RowsOf
  <2> QED  BY <1>3, <2>2, <2>3, AnswerKinds DEF Row, Answers
<1> QED  BY <1>1, <1>2, <1>3 DEF Replies

\* A refresh leaves one in flight, joined or the session's own.
LEMMA RefreshLeavesOne ==
    ASSUME SessionInv, NEW t, NEW sent, Refresh(t, sent), session' = t,
           \A r : r \in sent /\ r.kind = "flags"
                    <=> r \in requests /\ r.kind = "flags"
    PROVE  /\ OneRefresh'
           /\ refreshing' = TRUE
           /\ misses' \subseteq {"joined", "failed"}
           /\ requests' \subseteq sent \cup {Ask("flags", t)}
<1> USE DEF SessionInv, SessionTypeOK, OneRefresh, Refresh
<1>1. CASE refreshing
      BY <1>1
<1>2. CASE ~refreshing
      BY <1>2 DEF Ask
<1> QED  BY <1>1, <1>2

\* Steps of the tab that leave the accounts alone.
LEMMA PageSteps ==
    ASSUME SessionInv, UNCHANGED accountVars,
           \/ RefreshFlags
           \/ AskPage
           \/ Logout
           \/ \E s \in {None, session} : Load(s)
           \/ \E c \in Calls : SignedIn(c) \/ NotSignedIn(c)
    PROVE  /\ SessionTypeOK' /\ FormsSubmitted' /\ Truthful'
           /\ Guarded' /\ OneRefresh'
           /\ UserIsTheTokens' /\ FlagsAreTheSessions'
<1> USE AccountsAssumption, AskFields, AnswerKinds
    DEF SessionInv, SessionTypeOK, FormsSubmitted, Truthful, Guarded,
        UserIsTheTokens, FlagsAreTheSessions, Tokens, accountVars, tableVars,
        callVars, historyVars, authVars, flagVars
<1>1. CASE RefreshFlags
  <2>1. /\ OneRefresh' /\ refreshing' = TRUE
        /\ misses' \subseteq {"joined", "failed"}
        /\ requests' \subseteq requests \cup {Ask("flags", session)}
        BY <1>1, RefreshLeavesOne DEF RefreshFlags
  <2> QED  BY <1>1, <2>1 DEF RefreshFlags
<1>2. CASE AskPage
      BY <1>2 DEF AskPage, OneRefresh, Inside
<1>3. CASE Logout
  <2>1. /\ OneRefresh' /\ refreshing' = TRUE
        /\ misses' \subseteq {"joined", "failed"}
        /\ requests' \subseteq requests \cup {Ask("flags", None)}
        BY <1>3, RefreshLeavesOne DEF Logout
  <2> QED  BY <1>3, <2>1 DEF Logout
<1>4. ASSUME NEW s \in {None, session}, Load(s)
      PROVE  /\ SessionTypeOK' /\ FormsSubmitted' /\ Truthful'
             /\ Guarded' /\ OneRefresh'
             /\ UserIsTheTokens' /\ FlagsAreTheSessions'
  <2>1. CASE s = None
        BY <1>4, <2>1 DEF Load, OneRefresh
  <2>2. CASE s # None
    <3>1. /\ s = session /\ s \in Calls
          /\ requests' = {Ask("me", s)}
          BY <1>4, <2>2 DEF Load
    <3>2. /\ s \in Tokens /\ \A r \in requests' : r = Ask("me", s)
          /\ Ask("me", s) \in PageRequests
          BY <2>2, <3>1
    <3>3. validating' \in BOOLEAN
          BY <1>4 DEF Load
    <3>4. FormsSubmitted'
          BY <1>4 DEF Load
    <3>5. /\ session' = s /\ shown' = shown /\ me' = s
          /\ submitted' = {} /\ refreshing' = FALSE
          /\ flagsOf' = "nothing" /\ misses' = {} /\ token' = token
          BY <1>4, <2>2 DEF Load
    <3>6. /\ session' \in Tokens' \cup {None}
          /\ me' \in Tokens' \cup {None}
          /\ flagsOf' \in Tokens' \cup {None, "nothing"}
          BY <3>2, <3>5
    <3>7. shown' \in Claims \cup {None} /\ refreshing' \in BOOLEAN
          BY <3>5
    <3>8. /\ submitted' \subseteq Calls
          /\ requests' \subseteq PageRequests
          /\ misses' \subseteq {"joined", "failed"}
          BY <3>1, <3>2, <3>5
    <3>9. SessionTypeOK'
          BY <3>3, <3>6, <3>7, <3>8, Zenon
    <3>10. Truthful' /\ OneRefresh'
          BY <1>4, <3>1, <3>2 DEF Load, OneRefresh
    <3> QED  BY <1>4, <2>2, <3>1, <3>4, <3>9, <3>10 DEF Load
  <2> QED  BY <2>1, <2>2
<1>5. ASSUME NEW c \in Calls, SignedIn(c)
      PROVE  /\ SessionTypeOK' /\ FormsSubmitted' /\ Truthful'
             /\ Guarded' /\ OneRefresh'
             /\ UserIsTheTokens' /\ FlagsAreTheSessions'
  <2>1. c \in Tokens /\ token[c] \in Claims
        BY <1>5 DEF SignedIn, AccountsInv, Granted, AccountsTypeOK
  <2> DEFINE sent == requests \cup {Ask("me", c)}
  <2>2. \A r : r \in sent /\ r.kind = "flags"
                <=> r \in requests /\ r.kind = "flags"
        OBVIOUS
  <2>3. Refresh(c, sent) /\ session' = c
        BY <1>5 DEF SignedIn
  <2> HIDE DEF sent
  <2>4. /\ OneRefresh' /\ refreshing' = TRUE
        /\ misses' \subseteq {"joined", "failed"}
        /\ requests' \subseteq sent \cup {Ask("flags", c)}
        BY <2>2, <2>3, RefreshLeavesOne
  <2> QED  BY <1>5, <2>1, <2>4 DEF SignedIn, sent
<1>6. ASSUME NEW c \in Calls, NotSignedIn(c)
      PROVE  /\ SessionTypeOK' /\ FormsSubmitted' /\ Truthful'
             /\ Guarded' /\ OneRefresh'
             /\ UserIsTheTokens' /\ FlagsAreTheSessions'
      BY <1>6 DEF NotSignedIn, OneRefresh
<1> QED  BY <1>1, <1>2, <1>3, <1>4, <1>5, <1>6

\* Answers, as they come and as they are taken up.
LEMMA AnswerSteps ==
    ASSUME SessionInv, UNCHANGED accountVars, NEW r \in requests,
           \/ Respond(r)
           \/ MeAnswered(r)
           \/ FlagsAnswered(r)
           \/ Ignored(r)
    PROVE  /\ SessionTypeOK' /\ FormsSubmitted' /\ Truthful'
           /\ Guarded' /\ OneRefresh'
           /\ UserIsTheTokens' /\ FlagsAreTheSessions'
<1> USE AccountsAssumption, AnswerKinds
    DEF SessionInv, SessionTypeOK, FormsSubmitted, Truthful, Guarded,
        UserIsTheTokens, FlagsAreTheSessions, Tokens, accountVars, tableVars,
        callVars, historyVars, authVars, flagVars
<1>1. CASE Respond(r)
  <2>1. PICK a \in Replies(r) :
            requests' \subseteq (requests \ {r}) \cup {[r EXCEPT !.answer = a]}
        BY <1>1 DEF Respond
  <2> DEFINE s == [r EXCEPT !.answer = a]
  <2>2. /\ a \in Answers
        /\ r.kind = "me" => a # Success
        /\ r.kind = "me" /\ a \in {Profile(x) : x \in Claims} =>
            /\ a.user.sub = token[r.with].sub
            /\ r.with \notin restated => a.user.role = token[r.with].role
        /\ a = Unauthorized => r.with # None
        BY RepliesAreTrue
  <2>3. s \in PageRequests /\ s.kind = r.kind /\ s.with = r.with
        /\ s.answer = a
        BY <2>2, AnsweredFields
  <2> HIDE DEF s
  <2>4. SessionTypeOK'
        BY <1>1, <2>1, <2>3 DEF Respond, s
  <2>5. Truthful'
        BY <1>1, <2>1, <2>2, <2>3, ZenonT(30) DEF Respond, s
  <2>6. OneRefresh'
        BY <1>1, <2>1, <2>3, ZenonT(30) DEF Respond, OneRefresh, s
  <2> QED  BY <1>1, <2>4, <2>5, <2>6 DEF Respond
<1>2. CASE MeAnswered(r)
  <2>1. r.with = session /\ session # None
        BY <1>2 DEF MeAnswered, Live
  <2>2. r.answer = Failed
        \/ \E x \in Claims : r.answer = Profile(x) /\ r.answer.user = x
        BY <1>2 DEF MeAnswered, PageRequests, Answers
  <2> DEFINE sent == requests \ {r}
  <2>3. \A s : s \in sent /\ s.kind = "flags"
                <=> s \in requests /\ s.kind = "flags"
        BY <1>2 DEF MeAnswered
  <2>4. Refresh(session, sent) /\ session' = session
        BY <1>2 DEF MeAnswered
  <2> HIDE DEF sent
  <2>5. /\ OneRefresh' /\ refreshing' = TRUE
        /\ misses' \subseteq {"joined", "failed"}
        /\ requests' \subseteq sent \cup {Ask("flags", session)}
    <3> HIDE DEF SessionInv, SessionTypeOK, FormsSubmitted, Truthful, Guarded,
                 UserIsTheTokens, FlagsAreTheSessions
    <3> QED  BY <2>3, <2>4, RefreshLeavesOne
  <2>6. requests' \subseteq requests \cup {Ask("flags", session)}
        BY <2>5 DEF sent
  <2>7. Ask("flags", session) \in PageRequests
        /\ Ask("flags", session).kind = "flags"
        /\ Ask("flags", session).answer = Pending
        BY <2>1, AskFields
  <2>8. Truthful'
        BY <1>2, <2>1, <2>6, <2>7, AskFields DEF MeAnswered
  <2>9. UserIsTheTokens'
        BY <1>2, <2>1, <2>2 DEF MeAnswered
  <2>10. SessionTypeOK'
        BY <1>2, <2>2, <2>5, <2>6, <2>7 DEF MeAnswered
  <2>11. FormsSubmitted'
        BY <1>2 DEF MeAnswered
  <2>12. Guarded' /\ FlagsAreTheSessions'
        BY <1>2, <2>5 DEF MeAnswered
  <2> HIDE DEF SessionInv, SessionTypeOK, FormsSubmitted, Truthful, Guarded,
               UserIsTheTokens, FlagsAreTheSessions
  <2> QED  BY <2>5, <2>8, <2>9, <2>10, <2>11, <2>12
<1>3. CASE FlagsAnswered(r)
  <2>1. /\ UNCHANGED <<session, shown, validating, me, submitted>>
        /\ requests' = requests \ {r} /\ r.kind = "flags"
        /\ refreshing' = FALSE
        BY <1>3 DEF FlagsAnswered
  <2>2. OneRefresh'
        BY <2>1 DEF OneRefresh
  <2>3. FlagsAreTheSessions'
        BY <1>3 DEF FlagsAnswered, OneRefresh
  <2>4. /\ flagsOf' = flagsOf \/ flagsOf' = r.with
        /\ misses' = misses \/ misses' = misses \cup {"failed"}
        BY <1>3 DEF FlagsAnswered
  <2>5. flagsOf' \in Tokens' \cup {None, "nothing"}
        BY <2>4
  <2>6. SessionTypeOK' /\ UserIsTheTokens'
        BY <2>1, <2>4, <2>5
  <2>7. FormsSubmitted' /\ Truthful' /\ Guarded'
        BY <2>1
  <2> QED  BY <2>2, <2>3, <2>6, <2>7
<1>4. CASE Ignored(r)
      BY <1>4 DEF Ignored, OneRefresh
<1> QED  BY <1>1, <1>2, <1>3, <1>4

\* A form that is sent.
LEMMA SubmitKeeps ==
    ASSUME SessionInv, NEW c \in Calls, NEW k \in {"register", "login"},
           NEW e \in Emails, Submit(c, k, e)
    PROVE  /\ SessionTypeOK' /\ FormsSubmitted' /\ Truthful'
           /\ Guarded' /\ OneRefresh'
           /\ UserIsTheTokens' /\ FlagsAreTheSessions'
<1>1. UNCHANGED <<token, restated>> /\ pc[c] = "idle"
      /\ request' = [request EXCEPT ![c] = Form(k, e)]
      BY DEF Submit, Send, historyVars
<1> QED  BY <1>1
         DEF Submit, Form, SessionInv, AccountsInv, AccountsTypeOK,
             SessionTypeOK, FormsSubmitted, Truthful, Guarded, OneRefresh,
             UserIsTheTokens, FlagsAreTheSessions, Tokens, authVars, flagVars

-----------------------------------------------------------------------------
(* Session: the theorems.                                                  *)

\* The first states have the invariant.
LEMMA SessionStart == Init => SessionInv
<1> SUFFICES ASSUME Init
             PROVE  SessionInv
    OBVIOUS
<1>1. AccountsInv
      BY AccountsStart DEF Init
<1>2. SessionTypeOK /\ Truthful
  <2>1. CASE session = None
        BY <1>1, <2>1 DEF Init, SessionTypeOK, Truthful
  <2>2. CASE session # None
    <3>1. session \in Tokens /\ session \in Calls
          /\ token[session] \in Claims
          BY <1>1, <2>2 DEF Init, Tokens, AccountsInv, AccountsTypeOK
    <3>2. /\ requests = {Ask("me", session)}
          /\ Ask("me", session) \in PageRequests
          BY <2>2, <3>1, AskFields DEF Init
    <3>3. SessionTypeOK
          BY <2>2, <3>1, <3>2 DEF Init, SessionTypeOK
    <3> QED  BY <3>1, <3>2, <3>3, AccountsAssumption, AskFields, AnswerKinds
             DEF Truthful
  <2> QED  BY <2>1, <2>2
<1>3. OneRefresh
      BY <1>1, AskFields DEF Init, OneRefresh, Tokens
<1>4. FormsSubmitted /\ Guarded /\ UserIsTheTokens /\ FlagsAreTheSessions
      BY DEF Init, FormsSubmitted, Guarded, UserIsTheTokens,
             FlagsAreTheSessions
<1> QED  BY <1>1, <1>2, <1>3, <1>4 DEF SessionInv

\* Every step of the server and of the tab keeps it.
LEMMA SessionStep ==
    ASSUME SessionInv, [Next]_vars
    PROVE  SessionInv'
<1>1. AccountsInv'
      BY AccountsStep, SessionSteps DEF SessionInv
<1>2. CASE ServerStep
      BY <1>2, ServerKeeps
<1>3. CASE TabStep
  <2>1. /\ SessionTypeOK' /\ FormsSubmitted' /\ Truthful'
        /\ Guarded' /\ OneRefresh'
        /\ UserIsTheTokens' /\ FlagsAreTheSessions'
        BY <1>3, PageSteps, AnswerSteps, SubmitKeeps
        DEF TabStep, RefreshFlags, AskPage, Logout, Reload, SignedIn,
            NotSignedIn, Respond, MeAnswered, FlagsAnswered, Ignored,
            SessionExpired
  <2> QED  BY <1>1, <2>1 DEF SessionInv
<1>4. CASE UNCHANGED vars
      BY <1>1, <1>4
      DEF vars, accountVars, tableVars, callVars, historyVars, tabVars,
          authVars, flagVars, SessionInv, SessionTypeOK, FormsSubmitted,
          Truthful, Guarded, OneRefresh, UserIsTheTokens,
          FlagsAreTheSessions, Tokens
<1> QED  BY <1>2, <1>3, <1>4 DEF Next

\* The strengthening behind the tab's properties is an invariant.
THEOREM SessionInvariant == Spec => []SessionInv
BY SessionStart, SessionStep, PTL DEF Spec

\* Every variable of the server and of the tab keeps its type.
THEOREM TypeCorrect == Spec => []TypeOK
<1>1. SessionInv => TypeOK
      BY DEF SessionInv, AccountsInv, TypeOK
<1> QED  BY <1>1, SessionInvariant, PTL

\* The user on the screen is always the one the token speaks for.
THEOREM UserOfTheToken == Spec => []UserIsTheTokens
<1>1. SessionInv => UserIsTheTokens
      BY DEF SessionInv
<1> QED  BY <1>1, SessionInvariant, PTL

\* Flags that were asked for with another session are there only for a reason.
THEOREM FlagsOfTheSession == Spec => []FlagsAreTheSessions
<1>1. SessionInv => FlagsAreTheSessions
      BY DEF SessionInv
<1> QED  BY <1>1, SessionInvariant, PTL

\* A session ends by the user's choice or a 401 to a request with a token.
THEOREM EndsForAReason == Spec => SessionEndsForAReason
<1> DEFINE Reason ==
        session # None /\ session' = None
            => \/ Inside /\ submitted' = submitted
               \/ \E r \in requests : r.answer = Unauthorized /\ r.with # None
<1>1. ASSUME SessionInv, Next
      PROVE  Reason
      BY <1>1, AccountsAssumption
      DEF Next, ServerStep, TabStep, tabVars, authVars, RefreshFlags, Reload,
          Load, Submit, SignedIn, NotSignedIn, Logout, AskPage, Respond,
          MeAnswered, FlagsAnswered, Ignored, SessionExpired, SessionInv,
          Truthful
<1>2. SessionInv /\ [Next]_vars => [Reason]_vars
      BY <1>1
<1>3. Spec => [][Reason]_vars
      BY <1>2, SessionInvariant, PTL DEF Spec
<1> QED  BY <1>3 DEF SessionEndsForAReason
=============================================================================
