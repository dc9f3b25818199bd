---------------------------- MODULE LoginProofs ----------------------------
(***************************************************************************)
(* Theorems about accounts, for any number of simulators, names and        *)
(* passwords.  The inductive invariant says what a simulator that is       *)
(* creating an account may rely on: until another one creates the same     *)
(* account, the file is as access() has found it, or as fopen left it.     *)
(***************************************************************************)
EXTENDS LoginHist, TLAPS

\* overlap has seen every pair that is creating the same account.
PairsSeen ==
  \A i, j \in Instances :
    i # j /\ Path(i) = Path(j) /\ Creates(i, Path(i)) /\ Creates(j, Path(i))
      => Path(i) \in overlap

\* The file a simulator is about to create, or has just truncated.
CreatorInv ==
  \A i \in Instances :
    Creates(i, Path(i)) /\ Path(i) \notin overlap =>
      file[Path(i)] = IF place[i] = "write" THEN Empty ELSE Absent

HistTypeOK == overlap \subseteq Names /\ torn \subseteq Names

IInv == /\ TypeOK /\ HistTypeOK
        /\ PairsSeen /\ CreatorInv
        /\ OwnerLoggedIn /\ OneRegionPerUser /\ EmptyIsExplained

-----------------------------------------------------------------------------
(* What the credentials are. *)

\* The zero-filled credentials are credentials.
LEMMA BlankType == Blank \in Credentials
<1>1. PICK n \in Names, p \in Passwords : TRUE
  BY LoginConstants
<1>2. [name |-> n, pw |-> p] \in Credentials
  BY <1>1 DEF Credentials
<1> QED BY <1>2 DEF Blank

\* The path of an instance is a name, and what was typed a password.
LEMMA PathType ==
  ASSUME TypeOK, NEW i \in Instances
  PROVE  Path(i) \in Names /\ login[i].pw \in Passwords
BY DEF TypeOK, Path, Credentials

\* Neither mark of a file without an account is a password.
LEMMA NoPassword ==
  ASSUME NEW pw \in Passwords
  PROVE  pw # Absent /\ pw # Empty
BY LoginConstants

-----------------------------------------------------------------------------
(* Types. *)

LEMMA TypeStep ==
  ASSUME TypeOK, Next
  PROVE  TypeOK'
<1>1. PICK i \in Instances :
        get_credentials(i) \/ Dialogue(i) \/ Stop(i) \/ Start(i)
  BY DEF Next
<1>2. CASE get_credentials(i)
  BY <1>2 DEF get_credentials, TypeOK, Go
<1>3. CASE Check(i)
  BY <1>3 DEF Check, TypeOK, Go
<1>4. CASE Read(i)
  <2>1. regions' \in [Instances -> 0 .. Pages]
    BY <1>4, LoginConstants DEF Read, Kept, Found, Fits, TypeOK
  <2>2. login' \in [Instances -> Credentials]
    BY <1>4, BlankType DEF Read, TypeOK
  <2>3. /\ place' \in [Instances -> {"ask", "check", "read", "create", "write",
                                     "reread", "in", "down"}]
        /\ exists' \in [Instances -> BOOLEAN] /\ file' = file
    BY <1>4 DEF Read, TypeOK, Go
  <2> QED BY <2>1, <2>2, <2>3 DEF TypeOK
<1>5. ASSUME Exit(i), file' = file PROVE TypeOK'
  BY <1>5, BlankType, LoginConstants DEF Exit, TypeOK, Go
<1>6. CASE Open(i)
  <2>1. CASE Path(i) \in Unopenable
    BY <1>5, <1>6, <2>1 DEF Open
  <2>2. CASE Path(i) \notin Unopenable
    BY <1>6, <2>2 DEF Open, TypeOK, Go
  <2> QED BY <2>1, <2>2
<1>7. CASE Write(i)
  BY <1>7, PathType DEF Write, TypeOK, Go
<1>8. CASE Stop(i)
  BY <1>5, <1>8 DEF Stop
<1>9. CASE Start(i)
  BY <1>9 DEF Start, TypeOK, Go
<1> QED BY <1>1, <1>2, <1>3, <1>4, <1>6, <1>7, <1>8, <1>9 DEF Dialogue

LEMMA HistTypeStep ==
  ASSUME HistTypeOK, HistNext
  PROVE  HistTypeOK' /\ overlap \subseteq overlap' /\ torn \subseteq torn'
BY DEF HistTypeOK, HistNext

-----------------------------------------------------------------------------
(* Creation. *)

LEMMA PairsStep ==
  ASSUME TypeOK', HistNext
  PROVE  PairsSeen'
<1> SUFFICES ASSUME NEW i \in Instances, NEW j \in Instances, i # j,
                    Path(i)' = Path(j)', Creates(i, Path(i))', Creates(j, Path(i))'
             PROVE  (Path(i) \in overlap)'
  BY DEF PairsSeen
<1>1. Path(i)' \in Names
  BY DEF TypeOK, Path, Credentials
<1> QED BY <1>1 DEF HistNext, Creates, Path

\* Only fopen and fflush write to a file, and only to the creator's own.
LEMMA FileStep ==
  ASSUME TypeOK, Next, NEW n \in Names, file'[n] # file[n]
  PROVE  \E i \in Instances :
           /\ Path(i) = n /\ login' = login
           /\ \A j \in Instances \ {i} : place'[j] = place[j]
           /\ \/ place[i] = "create" /\ place'[i] = "write" /\ file'[n] = Empty
              \/ /\ place[i] = "write" /\ place'[i] = "reread"
                 /\ file'[n] = login[i].pw
<1>1. PICK i \in Instances :
        get_credentials(i) \/ Dialogue(i) \/ Stop(i) \/ Start(i)
  BY DEF Next
<1>2. Open(i) \/ Write(i)
  BY <1>1 DEF get_credentials, Dialogue, Check, Read, Stop, Start
<1>3. CASE Open(i)
  BY <1>3 DEF Open, Go, TypeOK
<1>4. CASE Write(i)
  BY <1>4 DEF Write, Go, TypeOK
<1> QED BY <1>2, <1>3, <1>4

\* A file that a step writes to was Absent or Empty, but for an overlap.
LEMMA WrittenIsNew ==
  ASSUME TypeOK, CreatorInv, Next, NEW n \in Names, file'[n] # file[n]
  PROVE  file[n] \in {Absent, Empty} \/ n \in overlap
<1>1. PICK i \in Instances : Path(i) = n /\ place[i] \in {"create", "write"}
  BY FileStep
<1> QED BY <1>1 DEF CreatorInv, Creates

\* A simulator that creates an account was creating it before the step, or has
\* just seen that there is no file.
LEMMA CreatesStep ==
  ASSUME TypeOK, Next, NEW i \in Instances, Creates(i, Path(i))'
  PROVE  /\ Path(i)' = Path(i)
         /\ \/ Creates(i, Path(i)) /\ (place[i] = "write" => place'[i] = "write")
            \/ place'[i] # "write" /\ file' = file /\ file[Path(i)] = Absent
         /\ place[i] # "write" /\ place'[i] = "write" =>
              file'[Path(i)] = Empty
<1>1. PICK k \in Instances :
        get_credentials(k) \/ Dialogue(k) \/ Stop(k) \/ Start(k)
  BY DEF Next
<1>2. CASE k # i
  BY <1>1, <1>2 DEF get_credentials, Dialogue, Check, Read, Open, Write, Stop,
    Start, Exit, Go, Creates, Path, TypeOK
<1>3. CASE k = i
  <2>1. ~get_credentials(i) /\ ~Stop(i) /\ ~Start(i) /\ ~Write(i) /\ ~Exit(i)
    BY DEF get_credentials, Stop, Start, Write, Exit, Go, Creates, TypeOK
  <2>2. CASE Check(i)
    BY <2>2 DEF Check, Go, Creates, Path, TypeOK
  <2>3. CASE Read(i)
    <3>1. CreatesNext(i)
      BY <2>3 DEF Read, Go, Creates, TypeOK
    <3> QED BY <2>3, <3>1 DEF Read, CreatesNext, Go, Creates, Path, TypeOK
  <2>4. CASE Open(i)
    <3>1. Path(i) \notin Unopenable
      BY <2>1, <2>4 DEF Open
    <3> QED BY <2>4, <3>1, PathType DEF Open, Go, Creates, Path, TypeOK
  <2> QED BY <1>1, <1>3, <2>1, <2>2, <2>3, <2>4 DEF Dialogue
<1> QED BY <1>2, <1>3

LEMMA CreatorStep ==
  ASSUME TypeOK, TypeOK', HistTypeOK, PairsSeen, PairsSeen', CreatorInv, Next,
         HistNext
  PROVE  CreatorInv'
<1> SUFFICES ASSUME NEW i \in Instances, Creates(i, Path(i))', (Path(i) \notin overlap)'
             PROVE  file'[Path(i)'] = IF place'[i] = "write" THEN Empty ELSE Absent
  BY DEF CreatorInv
<1> DEFINE n == Path(i)
<1>1. /\ Path(i)' = n /\ n \in Names /\ n \notin overlap /\ n \notin overlap'
  BY CreatesStep, PathType, HistTypeStep
<1>2. CASE file'[n] = file[n]
  <2>1. CASE place[i] # "write" /\ place'[i] = "write"
    BY <2>1, <1>1, CreatesStep
  <2>2. CASE Creates(i, n) /\ (place[i] = "write" <=> place'[i] = "write")
    BY <1>1, <1>2, <2>2 DEF CreatorInv
  <2> QED BY <1>1, <1>2, <2>1, <2>2, CreatesStep
<1>3. CASE file'[n] # file[n]
  <2>1. PICK k \in Instances :
          /\ Path(k) = n /\ login' = login
          /\ \A j \in Instances \ {k} : place'[j] = place[j]
          /\ \/ place[k] = "create" /\ place'[k] = "write" /\ file'[n] = Empty
             \/ place[k] = "write" /\ place'[k] = "reread"
    BY <1>1, <1>3, FileStep
  <2>2. k = i
    <3> SUFFICES ASSUME k # i PROVE FALSE
      OBVIOUS
    <3>1. Creates(k, n) /\ Path(k)' = n
      BY <2>1 DEF Creates, Path
    <3>2. Creates(i, n)
      BY <1>1, <1>3, CreatesStep
    <3>3. n \in overlap
      BY <2>1, <3>1, <3>2 DEF PairsSeen
    <3> QED BY <1>1, <3>3
  <2> QED BY <1>1, <2>1, <2>2 DEF Creates
<1> QED BY <1>2, <1>3

-----------------------------------------------------------------------------
(* Who is in. *)

\* A simulator gets in by a read that finds the account, or was in before.
LEMMA InStep ==
  ASSUME TypeOK, Next, NEW i \in Instances, place'[i] = "in"
  PROVE  /\ login'[i] = login[i]
         /\ \/ place[i] = "in"
            \/ Found(i) /\ file' = file
<1>1. PICK k \in Instances :
        get_credentials(k) \/ Dialogue(k) \/ Stop(k) \/ Start(k)
  BY DEF Next
<1>2. CASE k # i
  BY <1>1, <1>2 DEF get_credentials, Dialogue, Check, Read, Open, Write, Stop,
    Start, Exit, Go, TypeOK
<1>3. CASE k = i
  <2>1. Read(i)
    BY <1>1, <1>3 DEF get_credentials, Dialogue, Check, Open, Write, Stop, Start,
      Exit, Go, TypeOK
  <2>2. ~CreatesNext(i) /\ Found(i)
    BY <2>1 DEF Read, Go, TypeOK
  <2> QED BY <2>1, <2>2 DEF Read
<1> QED BY <1>2, <1>3

LEMMA OwnerStep ==
  ASSUME TypeOK, HistTypeOK, CreatorInv, OwnerLoggedIn, Next, HistNext
  PROVE  OwnerLoggedIn'
<1> SUFFICES ASSUME NEW i \in Instances, place'[i] = "in"
             PROVE  /\ StoredName[Path(i)'] = Path(i)'
                    /\ file'[Path(i)'] = login'[i].pw \/ Path(i)' \in overlap'
  BY DEF OwnerLoggedIn
<1>1. Path(i)' = Path(i) /\ login'[i].pw = login[i].pw
  BY InStep DEF Path
<1>2. CASE place[i] = "in"
  <2>1. StoredName[Path(i)] = Path(i)
    BY <1>2 DEF OwnerLoggedIn
  <2>2. CASE Path(i) \in overlap
    BY <1>1, <2>1, <2>2, HistTypeStep
  <2>3. CASE Path(i) \notin overlap
    <3>1. file[Path(i)] = login[i].pw
      BY <1>2, <2>3 DEF OwnerLoggedIn
    <3>2. file[Path(i)] \notin {Absent, Empty}
      BY <3>1, PathType, NoPassword
    <3>3. file'[Path(i)] = file[Path(i)]
      BY <2>3, <3>2, PathType, WrittenIsNew
    <3> QED BY <1>1, <2>1, <3>1, <3>3
  <2> QED BY <2>2, <2>3
<1>3. CASE Found(i) /\ file' = file
  BY <1>1, <1>3 DEF Found, Matches
<1> QED BY <1>2, <1>3, InStep

\* A step changes the regions of one simulator only when it gets in or ends.
LEMMA RegionStep ==
  ASSUME TypeOK, HistTypeOK, CreatorInv, OneRegionPerUser, Next, HistNext
  PROVE  OneRegionPerUser'
<1> SUFFICES ASSUME overlap' = {}, NEW j \in Instances
             PROVE  regions'[j] = IF place'[j] = "in" THEN 1 ELSE 0
  BY DEF OneRegionPerUser
<1>1. overlap = {}
  BY HistTypeStep
<1>2. regions[j] = IF place[j] = "in" THEN 1 ELSE 0
  BY <1>1 DEF OneRegionPerUser
<1>3. PICK i \in Instances :
        get_credentials(i) \/ Dialogue(i) \/ Stop(i) \/ Start(i)
  BY DEF Next
<1>4. CASE i # j
  BY <1>2, <1>3, <1>4 DEF get_credentials, Dialogue, Check, Read, Open, Write,
    Stop, Start, Exit, Go, TypeOK
<1>5. CASE i = j /\ Read(i)
  <2>1. regions[j] = 0
    BY <1>2, <1>5 DEF Read
  <2>2. CASE CreatesNext(i)
    <3>1. file[Path(i)] = Absent
      BY <1>1, <2>2 DEF CreatorInv, Creates, CreatesNext
    <3>2. ~Kept(i)
      BY <3>1, PathType, NoPassword DEF Kept, Found, Matches
    <3> QED BY <1>5, <2>1, <2>2, <3>2 DEF Read, Go, TypeOK
  <2>3. CASE ~CreatesNext(i)
    BY <1>5, <2>1, <2>3 DEF Read, Kept, Go, TypeOK
  <2> QED BY <2>2, <2>3
<1>6. CASE i = j /\ ~Read(i)
  BY <1>2, <1>3, <1>6 DEF get_credentials, Dialogue, Check, Open, Write, Stop,
    Start, Exit, Go, TypeOK
<1> QED BY <1>4, <1>5, <1>6

-----------------------------------------------------------------------------
(* Files without a record. *)

LEMMA EmptyStep ==
  ASSUME TypeOK, HistTypeOK, EmptyIsExplained, Next, HistNext
  PROVE  EmptyIsExplained'
<1> SUFFICES ASSUME NEW n \in Names, file'[n] = Empty, n \notin torn'
             PROVE  \E i \in Instances : place'[i] = "write" /\ Path(i)' = n
  BY DEF EmptyIsExplained
<1>1. CASE file'[n] # file[n]
  <2>1. PICK i \in Instances :
          /\ Path(i) = n /\ login' = login
          /\ \/ place'[i] = "write"
             \/ file'[n] = login[i].pw
    BY <1>1, FileStep
  <2>2. file'[n] # login[i].pw
    BY PathType, NoPassword
  <2> QED BY <2>1, <2>2 DEF Path
<1>2. CASE file'[n] = file[n]
  <2>1. PICK i \in Instances : place[i] = "write" /\ Path(i) = n
    BY <1>2, HistTypeStep DEF EmptyIsExplained
  <2>2. place'[i] # "down"
    BY <2>1 DEF HistNext
  <2>3. PICK k \in Instances :
          get_credentials(k) \/ Dialogue(k) \/ Stop(k) \/ Start(k)
    BY DEF Next
  <2>4. CASE k # i
    BY <2>1, <2>3, <2>4 DEF get_credentials, Dialogue, Check, Read, Open, Write,
      Stop, Start, Exit, Go, Path, TypeOK
  <2>5. CASE k = i
    <3>1. Write(i)
      BY <2>1, <2>2, <2>3, <2>5 DEF get_credentials, Dialogue, Check, Read, Open,
        Stop, Start, Exit, Go, TypeOK
    <3>2. file'[n] = login[i].pw
      BY <2>1, <3>1 DEF Write, TypeOK
    <3> QED BY <3>2, PathType, NoPassword
  <2> QED BY <2>4, <2>5
<1> QED BY <1>1, <1>2

-----------------------------------------------------------------------------
(* The invariant and what follows from it. *)

LEMMA InvInit == HistInit => IInv
<1> SUFFICES ASSUME HistInit PROVE IInv
  OBVIOUS
<1>1. TypeOK /\ HistTypeOK
  BY BlankType, LoginConstants DEF HistInit, Init, TypeOK, HistTypeOK
<1>2. PairsSeen /\ CreatorInv /\ OwnerLoggedIn
  BY DEF HistInit, Init, PairsSeen, CreatorInv, OwnerLoggedIn, Creates
<1>3. OneRegionPerUser
  BY DEF HistInit, Init, OneRegionPerUser
<1>4. EmptyIsExplained
  BY LoginConstants DEF HistInit, Init, EmptyIsExplained
<1> QED BY <1>1, <1>2, <1>3, <1>4 DEF IInv

\* Every call on a file, every exit and every restart, of any number of
\* simulators, preserves the invariant.
THEOREM LoginInductive == IInv /\ [HistNext]_histVars => IInv'
<1> SUFFICES ASSUME IInv, [HistNext]_histVars PROVE IInv'
  OBVIOUS
<1>1. CASE HistNext
  <2>1. Next
    BY <1>1 DEF HistNext
  <2>2. TypeOK' /\ HistTypeOK'
    BY <1>1, <2>1, TypeStep, HistTypeStep DEF IInv
  <2>3. PairsSeen'
    BY <1>1, <2>2, PairsStep
  <2>4. CreatorInv'
    BY <1>1, <2>1, <2>2, <2>3, CreatorStep DEF IInv
  <2>5. OwnerLoggedIn' /\ OneRegionPerUser' /\ EmptyIsExplained'
    BY <1>1, <2>1, OwnerStep, RegionStep, EmptyStep DEF IInv
  <2> QED BY <2>2, <2>3, <2>4, <2>5 DEF IInv
<1>2. CASE UNCHANGED histVars
  BY <1>2 DEF histVars, vars, IInv, TypeOK, HistTypeOK, PairsSeen, CreatorInv,
    OwnerLoggedIn, OneRegionPerUser, EmptyIsExplained, Creates, Path
<1> QED BY <1>1, <1>2

LEMMA LoginInvariant == HistSpec => []IInv
BY InvInit, LoginInductive, PTL DEF HistSpec

\* The state of the dialogue, the files and the pool is well typed; no login
\* ever keeps more users than the pool has room for.
THEOREM LoginTypeCorrect == HistSpec => []TypeOK
<1>1. IInv => TypeOK
  BY DEF IInv
<1> QED BY <1>1, LoginInvariant, PTL

\* Nobody is logged in without the password and the name in the file.
THEOREM OnlyOwnersIn == HistSpec => []OwnerLoggedIn
<1>1. IInv => OwnerLoggedIn
  BY DEF IInv
<1> QED BY <1>1, LoginInvariant, PTL

\* The pool keeps one region for whoever is logged in and none for others.
THEOREM NoRegionLeaks == HistSpec => []OneRegionPerUser
<1>1. IInv => OneRegionPerUser
  BY DEF IInv
<1> QED BY <1>1, LoginInvariant, PTL

\* An empty account file is being written or was cut off.
THEOREM EmptyHasCause == HistSpec => []EmptyIsExplained
<1>1. IInv => EmptyIsExplained
  BY DEF IInv
<1> QED BY <1>1, LoginInvariant, PTL

\* No step overwrites a password but after two simultaneous creations.
THEOREM PasswordsKept == HistSpec => PasswordKept
<1>1. ASSUME IInv, [HistNext]_histVars
      PROVE  [\A n \in Names :
                file[n] \in Passwords => file'[n] = file[n] \/ n \in overlap]_histVars
  <2> SUFFICES ASSUME HistNext, NEW n \in Names, file[n] \in Passwords,
                      file'[n] # file[n]
               PROVE  n \in overlap
    BY <1>1
  <2>1. TypeOK /\ CreatorInv /\ Next
    BY <1>1 DEF IInv, HistNext
  <2> QED BY <2>1, WrittenIsNew, NoPassword
<1> QED BY <1>1, LoginInvariant, PTL DEF HistSpec, PasswordKept
=============================================================================
