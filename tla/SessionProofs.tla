---------------------------- MODULE SessionProofs ----------------------------
(* Proofs about Session for every set of accounts and every number of      *)
(* logins.  The argument: as long as no logout overtakes an answer, only   *)
(* the account that is signed in has a Graph request or the read of a      *)
(* launch under way, and the menu is on the screen meanwhile.              *)
EXTENDS Session, TLAPS

(* Nothing is under way but for the account that is signed in.             *)
OwnAnswers ==
  /\ graphs # {} => screen = "menu" /\ graphs = {auth}
  /\ launch # None => screen = "menu" /\ launch = auth

(* currentUser is the account with a profile whose menu is shown.          *)
MenuIsOwn ==
  screen = "menu" /\ profiles[auth] # None => user = NoUser \/ user.uid = auth

SessionInv ==
  /\ TypeOK
  /\ user = NoUser \/ user.uid \in Accounts
  /\ screen # "login" => login = "idle"
  /\ screen = "closed" => user = NoUser /\ graphs = {} /\ launch = None
  /\ crossed \/ (OwnAnswers /\ MenuIsOwn)
  /\ ProfileIsOwn
  /\ PlaysAsSelf

(* None is the uid of no account.                                          *)
LEMMA NoneIsNobody == None \notin Accounts
BY AccountsAssumption

(* The initial state satisfies the invariant.                              *)
LEMMA SessionInit == Init => SessionInv
<1> SUFFICES ASSUME Init PROVE SessionInv
  OBVIOUS
<1>1. TypeOK
  <2>1. profiles \in [Accounts -> AccountOrNone]
    BY DEF Init, AccountOrNone
  <2>2. logins \in 0 .. MaxLogins
    BY AccountsAssumption DEF Init
  <2> QED
    BY <2>1, <2>2 DEF Init, TypeOK, NoUser, AccountOrNone
<1>2. \A a \in Accounts : profiles[a] = None
  BY DEF Init
<1> QED
  BY <1>1, <1>2 DEF Init, SessionInv, OwnAnswers, MenuIsOwn, ProfileIsOwn, PlaysAsSelf

(* The end of the process: nobody is current and nothing under way.        *)
LEMMA EndsSound ==
  ASSUME SessionInv, ProcessEnds, UNCHANGED <<auth, token, profiles, entries, logins, crossed>>
  PROVE  SessionInv'
<1>1. TypeOK'
  BY DEF SessionInv, ProcessEnds, TypeOK, NoUser, AccountOrNone
<1> QED
  BY <1>1 DEF SessionInv, ProcessEnds, OwnAnswers, MenuIsOwn, ProfileIsOwn, PlaysAsSelf

(* Every step preserves the invariant.                                     *)
LEMMA SessionNext == SessionInv /\ [Next]_vars => SessionInv'
<1> SUFFICES ASSUME SessionInv, [Next]_vars PROVE SessionInv'
  OBVIOUS
<1> USE NoneIsNobody
<1>a. TypeOK
  BY DEF SessionInv
<1>1. CASE LoginTUI
  <2>1. logins' \in 0 .. MaxLogins
    BY <1>1, <1>a, AccountsAssumption DEF LoginTUI, TypeOK
  <2> QED
    BY <1>1, <2>1 DEF LoginTUI, SessionInv, TypeOK, OwnAnswers, MenuIsOwn, ProfileIsOwn, PlaysAsSelf
<1>2. CASE FacebookRefuses
  BY <1>2 DEF FacebookRefuses, SessionInv, TypeOK, OwnAnswers, MenuIsOwn, ProfileIsOwn, PlaysAsSelf
<1>3. ASSUME NEW a \in Accounts, FacebookAnswers(a) PROVE SessionInv'
  BY <1>3 DEF FacebookAnswers, SessionInv, TypeOK, AccountOrNone, OwnAnswers, MenuIsOwn,
              ProfileIsOwn, PlaysAsSelf
<1>4. CASE SignInAnswers
  <2>1. screen = "login" /\ token # None
    BY <1>4, <1>a DEF SignInAnswers, SessionInv, TypeOK
  <2>2. TypeOK'
    BY <1>4, <1>a, <2>1 DEF SignInAnswers, TypeOK
  <2> QED
    BY <1>4, <2>1, <2>2 DEF SignInAnswers, SessionInv, OwnAnswers, MenuIsOwn, ProfileIsOwn, PlaysAsSelf
<1>5. CASE SignInFails
  BY <1>5 DEF SignInFails, SessionInv, TypeOK, OwnAnswers, MenuIsOwn, ProfileIsOwn, PlaysAsSelf
<1>6. CASE ProfileRead
  <2>1. screen = "login" /\ auth \in Accounts /\ token = auth
    BY <1>6, <1>a DEF ProfileRead, SessionInv, TypeOK, AccountOrNone
  <2>2. screen' = "menu" /\ login' = "idle" /\ button' = TRUE
        /\ UNCHANGED <<auth, token, profiles, launch, entries, logins, crossed>>
    BY <1>6 DEF ProfileRead, LoginCompletes
  <2>3. CASE profiles[auth] = None
    <3>1. graphs' = graphs \cup {auth} /\ user' = user
      BY <1>6, <2>1, <2>3 DEF ProfileRead
    <3>2. TypeOK'
      BY <1>a, <2>1, <2>2, <3>1 DEF TypeOK
    <3> QED
      BY <2>1, <2>2, <2>3, <3>1, <3>2 DEF SessionInv, OwnAnswers, MenuIsOwn, ProfileIsOwn, PlaysAsSelf
  <2>4. CASE profiles[auth] # None
    <3>1. graphs' = graphs /\ user' = [uid |-> auth, name |-> profiles[auth]]
      BY <1>6, <2>4 DEF ProfileRead, UserOnLogin
    <3>2. TypeOK'
      BY <1>a, <2>1, <2>2, <3>1 DEF TypeOK, AccountOrNone
    <3> QED
      BY <2>1, <2>2, <3>1, <3>2 DEF SessionInv, OwnAnswers, MenuIsOwn, ProfileIsOwn, PlaysAsSelf
  <2> QED
    BY <2>3, <2>4
<1>7. CASE GraphAnswers
  <2>1. PICK a \in graphs :
          IF auth = None
            THEN ProcessEnds /\ UNCHANGED <<auth, token, profiles, entries, logins, crossed>>
            ELSE /\ graphs' = graphs \ {a}
                 /\ profiles' = [profiles EXCEPT ![auth] = a]
                 /\ user' = [uid |-> auth, name |-> a]
                 /\ UNCHANGED <<auth, token, screen, button, login, launch, entries, logins,
                                crossed>>
    BY <1>7 DEF GraphAnswers, NewUid
  <2>2. CASE auth = None
    BY <2>1, <2>2, EndsSound
  <2>3. CASE auth # None
    <3>1. auth \in Accounts /\ a \in Accounts
      BY <1>a, <2>1, <2>3 DEF TypeOK, AccountOrNone
    <3>2. screen # "closed"
      BY <2>1 DEF SessionInv
    <3>3. TypeOK'
      BY <1>a, <2>1, <2>3, <3>1 DEF TypeOK, AccountOrNone
    <3>4. user'.uid = auth
      BY <2>1, <2>3
    <3>5. ~crossed => a = auth /\ graphs' = {}
      BY <2>1, <2>3 DEF SessionInv, OwnAnswers
    <3>6. ProfileIsOwn'
      BY <1>a, <2>1, <2>3, <3>1, <3>5 DEF SessionInv, ProfileIsOwn, TypeOK
    <3> QED
      BY <2>1, <2>3, <3>1, <3>2, <3>3, <3>4, <3>5, <3>6
      DEF SessionInv, OwnAnswers, MenuIsOwn, PlaysAsSelf
  <2> QED
    BY <2>2, <2>3
<1>8. CASE GraphFails
  BY <1>8 DEF GraphFails, SessionInv, TypeOK, OwnAnswers, MenuIsOwn, ProfileIsOwn, PlaysAsSelf
<1>9. CASE LogoutTUI
  <2>1. TypeOK'
    BY <1>9, <1>a DEF LogoutTUI, TypeOK, SessionInv, AccountOrNone
  <2> QED
    BY <1>9, <2>1 DEF LogoutTUI, SessionInv, OwnAnswers, MenuIsOwn, ProfileIsOwn, PlaysAsSelf
<1>10. CASE EnterRoom
  <2>1. CASE user = NoUser
    BY <1>10, <2>1, EndsSound DEF EnterRoom
  <2>2. CASE user # NoUser
    <3> DEFINE entry == [signed |-> auth, known |-> profiles[auth] # None,
                         crossed |-> crossed, as |-> user.uid]
    <3>1. entries' = entries \cup {entry}
          /\ UNCHANGED <<auth, token, user, profiles, screen, button, login, launch,
                         graphs, logins, crossed>>
      BY <1>10, <2>2 DEF EnterRoom
    <3>2. auth \in Accounts /\ user.uid \in Accounts /\ screen = "menu" /\ crossed \in BOOLEAN
      BY <1>10, <1>a, <2>2 DEF EnterRoom, SessionInv, TypeOK, AccountOrNone
    <3>3. entry \in [signed : Accounts, known : BOOLEAN, crossed : BOOLEAN, as : Accounts]
      BY <3>2
    <3>4. entry.known /\ ~entry.crossed => entry.as = entry.signed
      BY <2>2, <3>2 DEF SessionInv, MenuIsOwn
    <3>5. TypeOK' /\ PlaysAsSelf'
      BY <1>a, <3>1, <3>3, <3>4 DEF TypeOK, SessionInv, PlaysAsSelf
    <3> QED
      BY <3>1, <3>5 DEF SessionInv, OwnAnswers, MenuIsOwn, ProfileIsOwn
  <2> QED
    BY <2>1, <2>2
<1>11. CASE Kill
  BY <1>11, EndsSound DEF Kill
<1>12. CASE Launch
  <2>1. TypeOK'
    BY <1>12, <1>a DEF Launch, LaunchScreen, TypeOK, SessionInv
  <2> QED
    BY <1>12, <2>1 DEF Launch, LaunchScreen, SessionInv, OwnAnswers, MenuIsOwn, ProfileIsOwn, PlaysAsSelf
<1>13. CASE LaunchRead
  <2>1. launch \in Accounts
    BY <1>13, <1>a DEF LaunchRead, TypeOK, AccountOrNone
  <2>2. user' \in [uid : AccountOrNone, name : AccountOrNone]
        /\ (user' = NoUser \/ user'.uid = launch)
    BY <1>13, <1>a, <2>1 DEF LaunchRead, TypeOK, NoUser, AccountOrNone
  <2>3. TypeOK'
    BY <1>13, <1>a, <2>2 DEF LaunchRead, TypeOK, AccountOrNone
  <2>4. screen # "closed"
    BY <1>13 DEF LaunchRead, SessionInv
  <2>5. launch' = None /\ UNCHANGED <<auth, profiles, screen, login, graphs, entries, crossed>>
    BY <1>13 DEF LaunchRead
  <2>6. crossed' \/ (OwnAnswers' /\ MenuIsOwn')
    <3>1. CASE crossed
      BY <2>5, <3>1
    <3>2. CASE OwnAnswers /\ MenuIsOwn
      <4>1. launch = auth
        BY <1>13, <3>2 DEF OwnAnswers, LaunchRead
      <4>2. OwnAnswers'
        BY <2>5, <3>2 DEF OwnAnswers
      <4>3. MenuIsOwn'
        BY <2>2, <2>5, <4>1 DEF MenuIsOwn
      <4> QED
        BY <4>2, <4>3
    <3> QED
      BY <3>1, <3>2 DEF SessionInv
  <2>7. ProfileIsOwn' /\ PlaysAsSelf'
    BY <2>5 DEF SessionInv, ProfileIsOwn, PlaysAsSelf
  <2>8. user' = NoUser \/ user'.uid \in Accounts
    BY <2>1, <2>2
  <2> QED
    BY <2>3, <2>4, <2>5, <2>6, <2>7, <2>8 DEF SessionInv
<1>14. CASE UNCHANGED vars
  BY <1>14 DEF vars, SessionInv, TypeOK, OwnAnswers, MenuIsOwn, ProfileIsOwn, PlaysAsSelf
<1> QED
  BY <1>1, <1>2, <1>3, <1>4, <1>5, <1>6, <1>7, <1>8, <1>9, <1>10, <1>11, <1>12, <1>13, <1>14
  DEF Next, Answers

-----------------------------------------------------------------------------
(* Every variable has its type, and a menu a signed-in account, whatever   *)
(* Facebook, Firebase and Graph answer and when.                           *)
THEOREM SessionTypeOK == Spec => []TypeOK
<1>1. SessionInv => TypeOK
  BY DEF SessionInv
<1> QED
  BY <1>1, SessionInit, SessionNext, PTL DEF Spec

(* However many accounts take turns on a phone, the chain of callbacks     *)
(* makes the signed-in account current before it enters a room with its    *)
(* profile, although logout leaves currentUser behind.                     *)
THEOREM PlayersAreThemselves == Spec => []PlaysAsSelf
<1>1. SessionInv => PlaysAsSelf
  BY DEF SessionInv
<1> QED
  BY <1>1, SessionInit, SessionNext, PTL DEF Spec

(* The Graph answer gives a name only to the account it was asked for,     *)
(* unless a logout overtook it.                                            *)
THEOREM ProfilesAreOwn == Spec => []ProfileIsOwn
<1>1. SessionInv => ProfileIsOwn
  BY DEF SessionInv
<1> QED
  BY <1>1, SessionInit, SessionNext, PTL DEF Spec
=============================================================================
