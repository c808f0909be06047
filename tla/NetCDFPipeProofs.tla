-------------------------- MODULE NetCDFPipeProofs --------------------------
(***************************************************************************)
(* Theorems about NetCDFPipe for any pipes, files and variables, and any   *)
(* limit on the files that may be open at one time.                        *)
(***************************************************************************)
EXTENDS NetCDFPipe, WellFoundedInduction, TLAPS

USE FilesAssumption, LimitsAssumption

(* The library always finds a lowest number when one is free.              *)
LEMMA LeastNatural ==
    ASSUME NEW ids \in SUBSET Nat, ids # {}
    PROVE  \E x \in ids : \A y \in ids : ~ (y < x)
<1>1. PICK x \in ids : \A y \in ids : ~ (<<y, x>> \in OpToRel(<, Nat))
  BY NatLessThanWellFounded, WFMin, Zenon
<1>2. ASSUME NEW y \in ids, y < x
      PROVE  <<y, x>> \in OpToRel(<, Nat)
  BY <1>2, Zenon DEF OpToRel
<1> QED
  BY <1>1, <1>2, Zenon

LEMMA LowestIsMember ==
    ASSUME NEW ids \in SUBSET Nat, ids # {}
    PROVE  Lowest(ids) \in ids
<1>1. PICK x \in ids : \A y \in ids : ~ (y < x)
  BY LeastNatural
<1>2. \A y \in ids : x <= y
  BY <1>1
<1> QED
  BY <1>2 DEF Lowest

LEMMA LowestFree == Free # {} => Lowest(Free) \in Id /\ table[Lowest(Free)] = NoFile
<1>1. Free \in SUBSET Nat /\ Free \subseteq Id
  BY DEF Free, Id
<1> QED
  BY <1>1, LowestIsMember DEF Free

-----------------------------------------------------------------------------
(***************************************************************************)
(* What holds however the program uses its pipes: a pipe in a session is   *)
(* built and has a number the library gave out.                            *)
(***************************************************************************)
SessionHasNumber == \A p \in Pipe : session[p] => root_id[p] \in Id /\ Built(p)

Stored == TypeOK /\ SessionHasNumber

LEMMA StoredInit == Init => Stored
<1> SUFFICES ASSUME Init
             PROVE  Stored
  OBVIOUS
<1>1. 0 \in Value
  BY DEF Value
<1>2. TypeOK
  BY <1>1 DEF Init, TypeOK
<1> QED
  BY <1>2 DEF Init, Stored, SessionHasNumber

LEMMA StoredStep == Stored /\ [Next]_vars => Stored'
<1> SUFFICES ASSUME Stored, [Next]_vars
             PROVE  Stored'
  OBVIOUS
<1> USE DEF Stored
<1>1. ASSUME NEW p \in Pipe, Construct(p)
      PROVE  Stored'
  <2>1. TypeOK'
    BY <1>1 DEF Construct, library, TypeOK
  <2>2. SessionHasNumber'
    BY <1>1 DEF Construct, library, SessionHasNumber, Built, TypeOK
  <2> QED
    BY <2>1, <2>2
<1>2. ASSUME NEW p \in Pipe, Destroy(p)
      PROVE  Stored'
  <2>1. TypeOK'
    BY <1>2 DEF Destroy, library, TypeOK, SessionHasNumber
  <2>2. SessionHasNumber'
    BY <1>2 DEF Destroy, SessionHasNumber, Built, TypeOK
  <2> QED
    BY <2>1, <2>2
<1>3. ASSUME NEW p \in Pipe, Open(p)
      PROVE  Stored'
  <2>1. CASE Free # {} /\ root_id' = [root_id EXCEPT ![p] = Lowest(Free)]
                       /\ table' = [table EXCEPT ![Lowest(Free)] = path[p]]
                       /\ session' = [session EXCEPT ![p] = TRUE]
    <3>1. Lowest(Free) \in Id /\ table[Lowest(Free)] = NoFile
      BY <2>1, LowestFree
    <3>2. TypeOK'
      BY <1>3, <2>1, <3>1 DEF Open, TypeOK
    <3>3. SessionHasNumber'
      BY <1>3, <2>1, <3>1 DEF Open, MayOpen, SessionHasNumber, Built, TypeOK
    <3> QED
      BY <3>2, <3>3
  <2>2. CASE UNCHANGED <<root_id, table, session>>
    BY <1>3, <2>2 DEF Open, TypeOK, SessionHasNumber, Built
  <2> QED
    BY <1>3, <2>1, <2>2 DEF Open
<1>4. ASSUME NEW p \in Pipe, Close(p)
      PROVE  Stored'
  <2>1. CASE UNCHANGED <<table, disk, session>>
    BY <1>4, <2>1 DEF Close, members, TypeOK, SessionHasNumber, Built
  <2>2. CASE ~ UNCHANGED <<table, disk, session>>
    <3> DEFINE id == root_id[p]
               f == table[id]
    <3>1. /\ id \in Id /\ f \in File
          /\ table' = [table EXCEPT ![id] = NoFile]
          /\ disk' = [disk EXCEPT ![f] = data[f]]
          /\ session' = [session EXCEPT ![p] = FALSE]
          /\ UNCHANGED <<path, root_id, data, leaked>>
      BY <1>4, <2>2 DEF Close, NcCloses, FileOf, members, TypeOK
    <3> HIDE DEF id, f
    <3>2. TypeOK'
      BY <3>1 DEF TypeOK
    <3>3. SessionHasNumber'
      BY <3>1 DEF SessionHasNumber, Built, TypeOK
    <3> QED
      BY <3>2, <3>3
  <2> QED
    BY <2>1, <2>2
<1>5. ASSUME NEW p \in Pipe, Write(p)
      PROVE  Stored'
  <2>1. PICK v \in Variable, x \in Value :
          /\ \/ Resolves(p, v) /\ data' = [data EXCEPT ![Target(p)][v] = x]
             \/ UNCHANGED data
          /\ UNCHANGED <<path, root_id, table, disk, session, leaked>>
    BY <1>5 DEF Write, members
  <2>2. CASE Resolves(p, v) /\ data' = [data EXCEPT ![Target(p)][v] = x]
    <3> DEFINE f == FileOf(root_id[p])
    <3>1. f \in File /\ \E i \in Id : table[i] = f
      BY <2>2 DEF Resolves, FileOf, TypeOK
    <3>2. Target(p) = f
      BY <3>1 DEF Target
    <3> DEFINE content == [data[f] EXCEPT ![v] = x]
    <3>3. data' = [data EXCEPT ![f] = content]
      BY <2>1, <2>2, <3>2
    <3> HIDE DEF f
    <3>4. content \in [Variable -> Value]
      BY <3>1 DEF TypeOK
    <3> HIDE DEF content
    <3>5. data' \in [File -> [Variable -> Value]]
      BY <3>1, <3>3, <3>4 DEF TypeOK
    <3> QED
      BY <2>1, <3>5 DEF TypeOK, SessionHasNumber, Built
  <2>3. CASE UNCHANGED data
    BY <2>1, <2>3 DEF TypeOK, SessionHasNumber, Built
  <2> QED
    BY <2>1, <2>2, <2>3
<1>6. ASSUME NEW p \in Pipe, Read(p)
      PROVE  Stored'
  BY <1>6 DEF Read, members, library, TypeOK, SessionHasNumber, Built
<1>7. ASSUME Abort
      PROVE  Stored'
  <2>1. data' \in [File -> [Variable -> Value]] /\ disk' = data'
    BY <1>7 DEF Abort, TypeOK
  <2>2. TypeOK'
    BY <1>7, <2>1 DEF Abort, TypeOK
  <2> QED
    BY <1>7, <2>1, <2>2 DEF Abort, SessionHasNumber
<1>8. CASE UNCHANGED vars
  BY <1>8 DEF vars, members, library, TypeOK, SessionHasNumber, Built
<1> QED
  BY <1>1, <1>2, <1>3, <1>4, <1>5, <1>6, <1>7, <1>8 DEF Next

LEMMA StoredAlways == Spec => []Stored
  BY StoredInit, StoredStep, PTL DEF Spec

(* Every variable has its type, whatever the program calls when.           *)
THEOREM PipeTypeCorrect == Spec => []TypeOK
  BY StoredAlways, PTL DEF Stored

-----------------------------------------------------------------------------
(***************************************************************************)
(* A program that uses its pipes in sessions.  The two parts about numbers *)
(* hold one another up: no session loses its number to another pipe,       *)
(* because every number in use is accounted for.                           *)
(***************************************************************************)
Numbered == Stored /\ OwnFile /\ NumbersAccounted

LEMMA NumberedInit == Init => Numbered
  BY StoredInit DEF Init, Numbered, OwnFile, NumbersAccounted

(***************************************************************************)
(* Inside a session the number is the pipe's own and in use: close closes  *)
(* the pipe's file, or it throws and the session goes on.                  *)
(***************************************************************************)
Closes(p) == /\ table' = [table EXCEPT ![root_id[p]] = NoFile]
             /\ disk' = [disk EXCEPT ![path[p]] = data[path[p]]]
             /\ session' = [session EXCEPT ![p] = FALSE]
             /\ Returns(p, "close", 0)

LEMMA CloseInSession ==
    ASSUME Client = "sessions", Numbered, NEW p \in Pipe, Close(p)
    PROVE  /\ session[p] /\ root_id[p] \in Id
           /\ path[p] \in File /\ table[root_id[p]] = path[p]
           /\ \/ Closes(p)
              \/ UNCHANGED <<table, disk, session>> /\ Throws(p, "close")
           /\ UNCHANGED <<path, root_id, data, leaked>>
<1>1. session[p] /\ path[p] # NoFile
  BY DEF Close, MayUse, Built
<1>2. root_id[p] \in Id /\ path[p] \in File /\ table[root_id[p]] = path[p]
  BY <1>1 DEF Numbered, Stored, OwnFile, TypeOK
<1>3. ~ (root_id[p] < 0) /\ FileOf(root_id[p]) = path[p]
  BY <1>2 DEF Id, FileOf
<1> QED
  BY <1>1, <1>2, <1>3 DEF Close, NcCloses, Closes, members

LEMMA NumberedStep ==
    ASSUME Client = "sessions", Numbered, [Next]_vars
    PROVE  Numbered'
<1> USE DEF Numbered
<1>1. Stored' /\ TypeOK /\ SessionHasNumber
  BY StoredStep DEF Stored
<1>2. ASSUME NEW p \in Pipe, Construct(p)
      PROVE  (OwnFile /\ NumbersAccounted)'
  <2>1. ~ session[p]
    BY <1>1, <1>2 DEF Construct, SessionHasNumber
  <2>2. /\ \A q \in Pipe : session[q] => path'[q] = path[q] /\ root_id'[q] = root_id[q]
        /\ UNCHANGED <<session, table, leaked>>
    BY <1>1, <1>2, <2>1 DEF Construct, library, TypeOK
  <2>3. OwnFile'
    BY <2>2 DEF OwnFile
  <2>4. NumbersAccounted'
    BY <2>2 DEF NumbersAccounted
  <2> QED
    BY <2>3, <2>4
<1>3. ASSUME NEW p \in Pipe, Destroy(p)
      PROVE  (OwnFile /\ NumbersAccounted)'
  <2>1. /\ \A q \in Pipe : session'[q] <=> session[q] /\ q # p
        /\ \A q \in Pipe : q # p => path'[q] = path[q]
        /\ UNCHANGED <<root_id, table>>
        /\ leaked' = IF session[p] THEN leaked \cup {root_id[p]} ELSE leaked
    BY <1>1, <1>3 DEF Destroy, library, TypeOK
  <2>2. OwnFile'
    BY <2>1 DEF OwnFile
  <2>3. NumbersAccounted'
    BY <1>1, <2>1 DEF OwnFile, NumbersAccounted, TypeOK
  <2> QED
    BY <2>2, <2>3
<1>4. ASSUME NEW p \in Pipe, Open(p)
      PROVE  (OwnFile /\ NumbersAccounted)'
  <2>1. CASE UNCHANGED <<root_id, table, session>>
    BY <1>4, <2>1 DEF Open, OwnFile, NumbersAccounted
  <2>2. CASE ~ UNCHANGED <<root_id, table, session>>
    <3> DEFINE id == Lowest(Free)
    <3>1. /\ id \in Id /\ table[id] = NoFile
          /\ path[p] \in File
          /\ ~ session[p]
      BY <1>1, <1>4, <2>2, LowestFree DEF Open, MayOpen, Built, TypeOK
    <3>2. /\ root_id' = [root_id EXCEPT ![p] = id]
          /\ table' = [table EXCEPT ![id] = path[p]]
          /\ session' = [session EXCEPT ![p] = TRUE]
          /\ UNCHANGED <<path, leaked>>
      BY <1>4, <2>2 DEF Open
    <3> HIDE DEF id
    <3>3. /\ root_id'[p] = id /\ table'[id] = path[p] /\ session'[p]
          /\ \A q \in Pipe : q # p => /\ root_id'[q] = root_id[q]
                                       /\ session'[q] = session[q]
          /\ \A i \in Id : i # id => table'[i] = table[i]
      BY <1>1, <3>1, <3>2 DEF TypeOK
    <3>4. \A q \in Pipe : session[q] => root_id[q] # id
      BY <1>1, <3>1 DEF OwnFile
    <3>5. OwnFile'
      BY <3>1, <3>2, <3>3, <3>4 DEF OwnFile
    <3>6. NumbersAccounted'
      BY <1>1, <3>1, <3>2, <3>3 DEF NumbersAccounted, TypeOK
    <3> QED
      BY <3>5, <3>6
  <2> QED
    BY <2>1, <2>2
<1>5. ASSUME NEW p \in Pipe, Close(p)
      PROVE  (OwnFile /\ NumbersAccounted)'
  <2>1. /\ session[p] /\ root_id[p] \in Id
        /\ Closes(p) \/ UNCHANGED <<table, session>>
        /\ UNCHANGED <<path, root_id, leaked>>
    BY <1>1, <1>5, CloseInSession
  <2>2. CASE Closes(p)
    <3>1. /\ table'[root_id[p]] = NoFile
          /\ \A i \in Id : i # root_id[p] => table'[i] = table[i]
          /\ \A q \in Pipe : session'[q] <=> session[q] /\ q # p
      BY <1>1, <2>1, <2>2 DEF Closes, TypeOK
    <3>2. OwnFile'
      BY <2>1, <3>1 DEF OwnFile
    <3>3. NumbersAccounted'
      BY <1>1, <2>1, <3>1 DEF NumbersAccounted, TypeOK
    <3> QED
      BY <3>2, <3>3
  <2>3. CASE UNCHANGED <<table, session>>
    BY <2>1, <2>3 DEF OwnFile, NumbersAccounted
  <2> QED
    BY <2>1, <2>2, <2>3
<1>6. ASSUME NEW p \in Pipe, Write(p) \/ Read(p)
      PROVE  (OwnFile /\ NumbersAccounted)'
  <2>1. UNCHANGED <<path, root_id, table, session, leaked>>
    BY <1>6 DEF Write, Read, members, library
  <2> QED
    BY <2>1 DEF OwnFile, NumbersAccounted
<1>7. ASSUME Abort
      PROVE  (OwnFile /\ NumbersAccounted)'
  BY <1>7 DEF Abort, OwnFile, NumbersAccounted
<1>8. ASSUME UNCHANGED vars
      PROVE  (OwnFile /\ NumbersAccounted)'
  BY <1>8 DEF vars, members, library, OwnFile, NumbersAccounted
<1>9. (OwnFile /\ NumbersAccounted)'
  BY <1>2, <1>3, <1>4, <1>5, <1>6, <1>7, <1>8, Zenon DEF Next
<1> QED
  BY <1>1, <1>9

LEMMA NumberedAlways ==
    ASSUME Client = "sessions"
    PROVE  Spec => []Numbered
<1>1. Numbered /\ [Next]_vars => Numbered'
  BY NumberedStep
<1> QED
  BY <1>1, NumberedInit, PTL DEF Spec

(***************************************************************************)
(* Used in sessions, a pipe's number stands for the pipe's own file and    *)
(* for no other session's (open and close, netcdf_pipe.cpp).               *)
(***************************************************************************)
THEOREM SessionsOwnTheirFiles ==
    ASSUME Client = "sessions"
    PROVE  Spec => []OwnFile
  BY NumberedAlways, PTL DEF Numbered

(***************************************************************************)
(* Used in sessions, the class loses track of a number only by destroying  *)
(* a pipe that is open (the defaulted destructor, netcdf_pipe.h).          *)
(***************************************************************************)
THEOREM EveryNumberAccounted ==
    ASSUME Client = "sessions"
    PROVE  Spec => []NumbersAccounted
  BY NumberedAlways, PTL DEF Numbered
-----------------------------------------------------------------------------
(***************************************************************************)
(* Used in sessions, the class implements FileAccess: the actions match    *)
(* one for one, because a session's number leads to the pipe's own file.   *)
(***************************************************************************)
LEMMA PromiseInit == Init => Promise!Init
<1> SUFFICES ASSUME Init
             PROVE  Promise!Init
  OBVIOUS
<1>1. data \in [File -> [Variable -> Value]]
  BY StoredInit DEF Stored, TypeOK
<1> QED
  BY <1>1 DEF Init, Promise!Init

LEMMA PromiseStep ==
    ASSUME Client = "sessions", Numbered, [Next]_vars
    PROVE  [Promise!Next]_<<path, session, data, disk, answer>>
<1>1. ASSUME NEW p \in Pipe, Construct(p)
      PROVE  Promise!Build(p)
  BY <1>1 DEF Construct, Built, library, Promise!Build
<1>2. ASSUME NEW p \in Pipe, Destroy(p)
      PROVE  Promise!Destroy(p)
  BY <1>2 DEF Destroy, library, Promise!Destroy
<1>3. ASSUME NEW p \in Pipe, Open(p)
      PROVE  Promise!Open(p)
  BY <1>3
  DEF Open, Throws, Returns, Promise!Open, Promise!Throws, Promise!Returns
<1>4. ASSUME NEW p \in Pipe, Close(p)
      PROVE  Promise!Close(p)
  BY <1>4, CloseInSession
  DEF Closes, Throws, Returns, Promise!Close, Promise!Throws, Promise!Returns
<1>5. ASSUME NEW p \in Pipe, NEW v \in Variable, MayUse(p)
      PROVE  /\ Resolves(p, v) <=> Promise!Serves(p, v)
             /\ Resolves(p, v) => Target(p) = path[p]
  <2>1. session[p] /\ path[p] # NoFile
    BY <1>5 DEF MayUse, Built
  <2>2. root_id[p] \in Id /\ path[p] \in File /\ table[root_id[p]] = path[p]
    BY <2>1 DEF Numbered, Stored, OwnFile, TypeOK
  <2>3. ~ (root_id[p] < 0) /\ FileOf(root_id[p]) = path[p]
    BY <2>2 DEF Id, FileOf
  <2> QED
    BY <2>1, <2>2, <2>3 DEF Resolves, Target, Promise!Serves
<1>6. ASSUME NEW p \in Pipe, Write(p)
      PROVE  Promise!Write(p)
  BY <1>5, <1>6
  DEF Write, members, Throws, Returns, Promise!Write, Promise!Throws, Promise!Returns
<1>7. ASSUME NEW p \in Pipe, Read(p)
      PROVE  Promise!Read(p)
  BY <1>5, <1>7
  DEF Read, members, library, Throws, Returns, Promise!Read, Promise!Throws,
      Promise!Returns
<1>8. Abort => Promise!Abort
  BY DEF Abort, Promise!Abort
<1>9. UNCHANGED vars => UNCHANGED <<path, session, data, disk, answer>>
  BY DEF vars, members, library
<1> QED
  BY <1>1, <1>2, <1>3, <1>4, <1>6, <1>7, <1>8, <1>9, Zenon
  DEF Next, Promise!Next

(* Every behaviour of a program with sessions is one FileAccess promises.  *)
THEOREM SessionsKeepThePromise ==
    ASSUME Client = "sessions"
    PROVE  Spec => ImplementsFileAccess
<1>1. Numbered /\ [Next]_vars => [Promise!Next]_<<path, session, data, disk, answer>>
  BY PromiseStep
<1> QED
  BY <1>1, PromiseInit, NumberedAlways, PTL
  DEF Spec, ImplementsFileAccess, Promise!Spec
=============================================================================
