----------------------------- MODULE NetCDFPipe -----------------------------
(***************************************************************************)
(* The NetCDFPipe class (src/src/pipes/netcdf_pipe.{h,cpp}) as a program   *)
(* with several pipe objects uses it, one call after the other.  An object *)
(* remembers in root_id the number that nc_open gave to its file; all the  *)
(* library sees of a later call is that number.                            *)
(*                                                                         *)
(* The netCDF library is external: it keeps a table of the files that are  *)
(* open, gives a newly opened file the lowest number that is free, rejects *)
(* a number that is not in use, and writes a file back when it is closed.  *)
(* Its memory of a file is one for all the numbers the file has.  Any of   *)
(* its functions may fail.                                                 *)
(***************************************************************************)
EXTENDS Integers, FiniteSets

CONSTANTS Pipe, File, Variable,
          Has,        \* Has[f]: the variables of file f
          MaxId,      \* files that may be open at one time
          MaxValue,   \* bound: values the program writes
          NoFile,     \* no file: of a pipe not built, of a number not in use
          Client      \* how the program uses its pipes, see below

ASSUME FilesAssumption == /\ Has \in [File -> SUBSET Variable]
                          /\ NoFile \notin File
ASSUME LimitsAssumption == MaxId \in Nat /\ MaxValue \in Nat

(***************************************************************************)
(* A program with sessions calls open only outside a session, everything   *)
(* else only inside one, as the generated code and the examples do; an     *)
(* exception that unwinds through a session destroys pipes that are open   *)
(* (receiver.cpp would, if it caught the exception).  The class itself     *)
(* allows any call at any time.                                            *)
(***************************************************************************)
ASSUME ClientAssumption == Client \in {"sessions", "any"}

VARIABLES
    path,     \* path[p]: the path member, NoFile while p is not built
    root_id,  \* root_id[p]: the root_id member
    table,    \* external: table[i] is the open file with number i
    data,     \* external: what the files hold, written back or not
    disk,     \* external: what of it has certainly been written back
    session,  \* history: p was opened and not closed since
    leaked,   \* history: the numbers that pipes destroyed in a session had
    answer    \* history: how the last call ended

members == <<path, root_id>>
library == <<table, data, disk>>
vars == <<members, library, session, leaked, answer>>

Id == 1 .. MaxId
Value == 0 .. MaxValue

Throws(p, op) == answer' = [pipe |-> p, op |-> op, ok |-> FALSE, value |-> 0]
Returns(p, op, value) == answer' = [pipe |-> p, op |-> op, ok |-> TRUE, value |-> value]

Init ==
    /\ path = [p \in Pipe |-> NoFile]
    /\ root_id = [p \in Pipe |-> -1]
    /\ table = [i \in Id |-> NoFile]
    /\ data = [f \in File |-> [v \in Variable |-> 0]]
    /\ disk = data
    /\ session = [p \in Pipe |-> FALSE]
    /\ leaked = {}
    /\ answer = [pipe |-> NoFile, op |-> "none", ok |-> TRUE, value |-> 0]

-----------------------------------------------------------------------------
(* What the program may do with pipe p now.                                *)
Built(p) == path[p] # NoFile
MayOpen(p) == Built(p) /\ (Client = "any" \/ ~ session[p])
MayUse(p) == Built(p) /\ (Client = "any" \/ session[p])

ConstructZeroed(p) ==                                        \* seeded fault
    /\ ~ Built(p)
    /\ \E f \in File : path' = [path EXCEPT ![p] = f]
    /\ root_id' = [root_id EXCEPT ![p] = 0]
    /\ UNCHANGED <<library, session, leaked, answer>>
Construct(p) ==
    /\ ~ Built(p)
    /\ \E f \in File : path' = [path EXCEPT ![p] = f]
    /\ root_id' = [root_id EXCEPT ![p] = -1]
    /\ UNCHANGED <<library, session, leaked, answer>>

(* The destructor is the default one: it does not close the file.          *)
Destroy(p) ==
    /\ Built(p)
    /\ path' = [path EXCEPT ![p] = NoFile]
    /\ session' = [session EXCEPT ![p] = FALSE]
    /\ leaked' = IF session[p] THEN leaked \cup {root_id[p]} ELSE leaked
    /\ UNCHANGED <<root_id, library, answer>>

Free == {i \in Id : table[i] = NoFile}
Lowest(ids) == CHOOSE i \in ids : \A j \in ids : i <= j

(* nc_open fails when the file cannot be opened or the table is full, and  *)
(* then leaves root_id alone.                                              *)
OpenForgetsId(p) ==                                          \* seeded fault
    /\ MayOpen(p)
    /\ Free # {}
    /\ table' = [table EXCEPT ![Lowest(Free)] = path[p]]
    /\ session' = [session EXCEPT ![p] = TRUE]
    /\ Returns(p, "open", 0)
    /\ UNCHANGED <<members, data, disk, leaked>>
Open(p) ==
    /\ MayOpen(p)
    /\ \/ /\ Free # {}
          /\ root_id' = [root_id EXCEPT ![p] = Lowest(Free)]
          /\ table' = [table EXCEPT ![Lowest(Free)] = path[p]]
          /\ session' = [session EXCEPT ![p] = TRUE]
          /\ Returns(p, "open", 0)
       \/ /\ UNCHANGED <<root_id, table, session>>
          /\ Throws(p, "open")
    /\ UNCHANGED <<path, data, disk, leaked>>

(* What the library finds under a number: NoFile is NC_EBADID.             *)
FileOf(id) == IF id \in Id THEN table[id] ELSE NoFile

(***************************************************************************)
(* close: silent if the pipe was never opened, otherwise nc_close of the   *)
(* number, which stays in root_id.  nc_close fails for a number that is    *)
(* not in use, and may fail when it writes the file back: it then leaves   *)
(* the number in use, and how much it wrote is uncertain.                  *)
(***************************************************************************)
NcCloses(p) ==
    /\ FileOf(root_id[p]) # NoFile
    /\ table' = [table EXCEPT ![root_id[p]] = NoFile]
    /\ disk' = [disk EXCEPT ![FileOf(root_id[p])] = data[FileOf(root_id[p])]]

CloseIgnoresError(p) ==                                      \* seeded fault
    /\ MayUse(p)
    /\ NcCloses(p) \/ UNCHANGED <<table, disk>>
    /\ session' = [session EXCEPT ![p] = FALSE]
    /\ Returns(p, "close", 0)
    /\ UNCHANGED <<members, data, leaked>>
CloseKeepsFile(p) ==                                         \* seeded fault
    /\ MayUse(p)
    /\ session' = [session EXCEPT ![p] = FALSE]
    /\ Returns(p, "close", 0)
    /\ UNCHANGED <<members, library, leaked>>
Close(p) ==
    /\ MayUse(p)
    /\ \/ /\ root_id[p] < 0
          /\ UNCHANGED <<table, disk, session>>
          /\ Returns(p, "close", 0)
       \/ /\ root_id[p] >= 0
          /\ NcCloses(p)
          /\ session' = [session EXCEPT ![p] = FALSE]
          /\ Returns(p, "close", 0)
       \/ /\ root_id[p] >= 0
          /\ UNCHANGED <<table, disk, session>>
          /\ Throws(p, "close")
    /\ UNCHANGED <<members, data, leaked>>

(***************************************************************************)
(* assert_open, then resolve_path and get_variable_info: the library must  *)
(* know the number and find the variable in that file.                     *)
(***************************************************************************)
AssumesOpen(p, v) == v \in Has[path[p]]                      \* seeded fault
Resolves(p, v) ==
    /\ ~ (root_id[p] < 0)
    /\ FileOf(root_id[p]) # NoFile
    /\ v \in Has[FileOf(root_id[p])]

Target(p) == IF FileOf(root_id[p]) \in File THEN FileOf(root_id[p]) ELSE path[p]

(***************************************************************************)
(* write: nc_put_var or nc_put_vara of the resolved variable.  A put that  *)
(* fails may have stored something all the same (values out of range, or   *)
(* a part); every other failure comes before it and stores nothing.        *)
(***************************************************************************)
Write(p) ==
    \E v \in Variable, x \in Value :
        /\ MayUse(p)
        /\ \/ /\ Resolves(p, v)
              /\ data' = [data EXCEPT ![Target(p)][v] = x]
              /\ Returns(p, "write", 0) \/ Throws(p, "write")
           \/ UNCHANGED data /\ Throws(p, "write")
        /\ UNCHANGED <<members, table, disk, session, leaked>>

(* read: nc_get_var or nc_get_vara, which may fail as well.                *)
Read(p) ==
    \E v \in Variable :
        /\ MayUse(p)
        /\ \/ Resolves(p, v) /\ Returns(p, "read", data[Target(p)][v])
           \/ Throws(p, "read")
        /\ UNCHANGED <<members, library, session, leaked>>

(***************************************************************************)
(* The process ends without closing anything, by an exception that nobody  *)
(* catches or from outside: what was not written back may be lost.         *)
(***************************************************************************)
Abort ==
    /\ path' = [p \in Pipe |-> NoFile]
    /\ table' = [i \in Id |-> NoFile]
    /\ session' = [p \in Pipe |-> FALSE]
    /\ \E lost \in SUBSET File :
          data' = [f \in File |-> IF f \in lost THEN disk[f] ELSE data[f]]
    /\ disk' = data'
    /\ leaked' = {}
    /\ UNCHANGED <<root_id, answer>>

Next == \/ \E p \in Pipe : Construct(p) \/ Destroy(p) \/ Open(p) \/ Close(p)
                             \/ Write(p) \/ Read(p)
        \/ Abort

Spec == Init /\ [][Next]_vars

-----------------------------------------------------------------------------
(* Every variable has its type.                                            *)
TypeOK ==
    /\ path \in [Pipe -> File \cup {NoFile}]
    /\ root_id \in [Pipe -> Id \cup {-1}]
    /\ table \in [Id -> File \cup {NoFile}]
    /\ data \in [File -> [Variable -> Value]]
    /\ disk \in [File -> [Variable -> Value]]
    /\ session \in [Pipe -> BOOLEAN]
    /\ leaked \subseteq Id

(***************************************************************************)
(* While a pipe is in a session its number stands for its own file, and no *)
(* other session has the same number: what one pipe closes is never the    *)
(* file of another (open and close, netcdf_pipe.cpp).                      *)
(***************************************************************************)
OwnFile ==
    /\ \A p \in Pipe : session[p] => /\ root_id[p] \in Id
                                     /\ path[p] # NoFile
                                     /\ table[root_id[p]] = path[p]
    /\ \A p, q \in Pipe : session[p] /\ session[q] /\ p # q => root_id[p] # root_id[q]

(***************************************************************************)
(* A number in use belongs to one session, or to a pipe that was destroyed *)
(* within one: a close that succeeds gives its number back, one that fails *)
(* leaves the session open, a failed open keeps none, and only what the    *)
(* missing destructor leaks can use up the library's table.                *)
(***************************************************************************)
NumbersAccounted ==
    /\ \A i \in Id : table[i] # NoFile =>
          i \in leaked \/ \E p \in Pipe : session[p] /\ root_id[p] = i
    /\ \A i \in leaked : /\ table[i] # NoFile
                         /\ \A p \in Pipe : session[p] => root_id[p] # i

(***************************************************************************)
(* "Trying to acces netcdf file that is not open." (assert_open): a call   *)
(* on a pipe outside a session throws.  As long as no other file is open   *)
(* the library sees to it; with several pipes the code breaks it, because  *)
(* close leaves root_id set and the number soon stands for another file.   *)
(***************************************************************************)
NotOpenIsRejected ==
    [][\A p \in Pipe, op \in {"read", "write"} :
          (answer' # answer /\ answer'.pipe = p /\ answer'.op = op /\ answer'.ok)
             => session[p]]_vars

-----------------------------------------------------------------------------
Promise == INSTANCE FileAccess

(* Used in sessions, exceptions or not, the class keeps its promise.       *)
ImplementsFileAccess == Promise!Spec
=============================================================================
