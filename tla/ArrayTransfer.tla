--------------------------- MODULE ArrayTransfer ---------------------------
(***************************************************************************)
(* What the two pipes do with one array: VectorInterface                   *)
(* (src/src/interfaces/vector_interface.{h,cpp}) flattens nested vectors   *)
(* and builds them again; ZeroMQPipe sends the path and the sizes, and the *)
(* bytes (message_for_type, data_from_message); NetCDFPipe passes an       *)
(* address and the sizes in the file to the netCDF library.                *)
(*                                                                         *)
(* An array of dimension 0 is a value, of dimension n a sequence of arrays *)
(* of dimension n - 1.  Memory is a sequence of units; an element takes    *)
(* Width[type] of them, and units that are not the whole of one element    *)
(* read as Garbage.  What lies next to an array or a message is undefined  *)
(* in C++: reading it gives Garbage, or the program crashes.               *)
(***************************************************************************)
EXTENDS Utilities, SequencesExt, FiniteSetsExt

CONSTANTS Arrays,    \* Arrays[d]: the arrays of dimension d, ragged ones too
          Type,      \* element types
          Width,     \* Width[t]: the size of an element
          FileSizes, \* the dimension sizes a variable of the file may have
          Path,      \* the paths that write and read are called with
          MaxInt,    \* the largest int
          InPlace,   \* bytes that a message object has room for itself
          Garbage    \* a value nobody wrote

Dimension == DOMAIN Arrays

ASSUME ArrayAssumption ==
    \A d \in Dimension :
        d \in Nat /\ (d > 0 => d - 1 \in Dimension /\ Arrays[d] \subseteq Seq(Arrays[d - 1]))
ASSUME SizeAssumption ==
    Width \in [Type -> Nat \ {0}] /\ MaxInt \in Nat \ {0} /\ FileSizes \subseteq Seq(Nat)
ASSUME InPlaceAssumption == InPlace \in Nat
(* A full path begins with a slash.                                        *)
ASSUME PathAssumption == \A p \in Path : p \in Seq(STRING) /\ p # << >> /\ p[1] = "/"

VARIABLES
    array,   \* what the program writes: its dimension, element type and value
    target,  \* how it is read: dimension and element type
    path,    \* the paths passed to write and to read
    stage,   \* where the transfer is
    message, \* the two parts of the ZeroMQ message
    file,    \* the variable in the netCDF file
    buffer,  \* the flat vector that is copied into the container read
    result   \* the container read

vars == <<array, target, path, stage, message, file, buffer, result>>

Nothing == << >>

Init ==
    /\ \E d \in Dimension, t \in Type :
          \E a \in Arrays[d] : array = [dimension |-> d, type |-> t, value |-> a]
    /\ target \in [dimension : Dimension, type : Type]
    /\ path = [write |-> Nothing, read |-> Nothing]
    /\ stage = "start"
    /\ message = [info |-> << >>, units |-> << >>]
    /\ file = Nothing
    /\ buffer = << >>
    /\ result = Nothing

-----------------------------------------------------------------------------
(* number_of_elements, which is 0 and not 1 for no dimensions at all.      *)
Product(sizes) ==
    LET product[n \in 0 .. Len(sizes)] ==
          IF n = 0 THEN 1 ELSE product[n - 1] * sizes[n]
    IN  product[Len(sizes)]

NumberOfElements(sizes) == IF sizes = << >> THEN 0 ELSE Product(sizes)

(***************************************************************************)
(* container_dimension_sizes follows the first child down to the elements. *)
(* The dimensions below an empty vector have size 0.                       *)
(***************************************************************************)
FirstChild(a) == IF a = << >> THEN << >> ELSE Head(a)
FirstVectors(d, a) ==
    LET vector[n \in 1 .. d] == IF n = 1 THEN a ELSE FirstChild(vector[n - 1])
    IN  vector

LengthsToEmpty(vectors) ==                                   \* seeded fault
    [n \in 1 .. Min({n \in DOMAIN vectors : vectors[n] = << >>} \cup {Len(vectors)}) |->
       Len(vectors[n])]
Lengths(vectors) == [n \in DOMAIN vectors |-> Len(vectors[n])]
Sizes(d, a) == IF d = 0 THEN << 1 >> ELSE Lengths(FirstVectors(d, a))

(***************************************************************************)
(* The check of the siblings looks at the first child each time, so it     *)
(* compares the first child with itself.                                   *)
(***************************************************************************)
Sibling(a, i) == Head(a)
Consistent(d, a) ==
    \A n \in 1 .. d - 1 :
        LET vector == FirstVectors(d, a)[n]
        IN  \A i \in DOMAIN vector : Sizes(d - n, Sibling(vector, i)) = Sizes(d - n, Head(vector))

(***************************************************************************)
(* flatten_data: the elements in order, in a vector of the size computed.  *)
(* Rows(d, a)[n] has all that the n-th dimension holds, one after another. *)
(***************************************************************************)
Rows(d, a) ==
    LET rows[n \in 1 .. d] == IF n = 1 THEN a ELSE FlattenSeq(rows[n - 1])
    IN  rows
Elements(d, a) == IF d = 0 THEN << a >> ELSE Rows(d, a)[d]

Room(d, a) == NumberOfElements(Sizes(d, a))
Fits(d, a) == Consistent(d, a) /\ Len(Elements(d, a)) <= Room(d, a)
Flat(d, a) == [i \in 1 .. Room(d, a) |->
                 IF i <= Len(Elements(d, a)) THEN Elements(d, a)[i] ELSE 0]

(***************************************************************************)
(* resize and assign: the elements in order into nested vectors, built     *)
(* from the innermost dimension outwards.                                  *)
(***************************************************************************)
Cut(s, count, size) == [i \in 1 .. count |-> SubSeq(s, (i - 1) * size + 1, i * size)]
Nested(sizes, flat) ==
    LET d == Len(sizes)
        rows[n \in 0 .. d - 1] ==
          IF n = 0 THEN SubSeq(flat, 1, Product(sizes))
          ELSE Cut(rows[n - 1], Product(SubSeq(sizes, 1, d - n)), sizes[d - n + 1])
    IN  rows[d - 1]

-----------------------------------------------------------------------------
(***************************************************************************)
(* ZeroMQVariableInfo: the path of a field and the sizes of its dimensions *)
(* travel as one text, the first part of a message: "/g/a;2,3".            *)
(***************************************************************************)
Info(name, sizes) == [name |-> name, dimension_sizes |-> sizes]

(* Numbers as a stream prints them and as stoi reads them.                 *)
Digits == <<"0", "1", "2", "3", "4", "5", "6", "7", "8", "9">>
Decimal(number) ==
    LET text[n \in 0 .. number] ==
          IF n < 10 THEN << Digits[n + 1] >>
          ELSE Append(text[n \div 10], Digits[(n % 10) + 1])
    IN  text[number]
Digit(char) == CHOOSE n \in 0 .. 9 : Digits[n + 1] = char
Number(text) ==
    LET value[i \in 0 .. Len(text)] ==
          IF i = 0 THEN 0 ELSE 10 * value[i - 1] + Digit(text[i])
    IN  value[Len(text)]

(* to_string                                                               *)
InfoText(info) ==
    info.name \o << ";" >> \o
      FlattenSeq([i \in DOMAIN info.dimension_sizes |->
                    (IF i > 1 THEN << "," >> ELSE << >>)
                      \o Decimal(info.dimension_sizes[i])])

(* from_string_view, which throws for the other texts.                     *)
Split(text) == SplitString(text, ";")
Numbers(text) == IF Len(Split(text)) = 1 THEN << >> ELSE SplitString(Split(text)[2], ",")

Convertible(text) ==
    /\ Len(Split(text)) \in {1, 2}
    /\ \A i \in DOMAIN Numbers(text) : Number(Numbers(text)[i]) <= MaxInt

FromStringView(text) ==
    Info(Split(text)[1], [i \in DOMAIN Numbers(text) |-> Number(Numbers(text)[i])])

(* ZeroMQPipe::validate_name                                               *)
AnyName(name) == TRUE                                        \* seeded fault
ValidName(name) == ";" \notin ToSet(name)

-----------------------------------------------------------------------------
(* Memory of n units that holds these values and then something else.      *)
Bytes(t, values) ==
    FlattenSeq([i \in DOMAIN values |-> [k \in 1 .. Width[t] |-> <<t, values[i], k>>]])

Stray == <<Garbage, Garbage, 0>>
First(n, units) == [i \in 1 .. n |-> IF i <= Len(units) THEN units[i] ELSE Stray]

(* The value of type t in units first .. first + Width[t] - 1.             *)
ValueAt(t, units, first) ==
    IF \E x \in {units[first][2]} :
          \A k \in 1 .. Width[t] : units[first + k - 1] = <<t, x, k>>
    THEN units[first][2] ELSE Garbage

Values(t, n, units) ==
    [i \in 1 .. n |-> ValueAt(t, First(n * Width[t], units), (i - 1) * Width[t] + 1)]

Throw == stage' = "thrown" /\ UNCHANGED <<message, file, buffer, result>>
Crash == stage' = "crashed" /\ UNCHANGED <<message, file, buffer, result>>

-----------------------------------------------------------------------------
(* ZeroMQPipe::write: path and sizes, and message_for_type.                *)
Send(name) ==
    /\ stage = "start"
    /\ path' = [path EXCEPT !.write = name]
    /\ LET d == array.dimension
           a == array.value
           t == array.type
       IN  IF ~ ValidName(name) \/ ~ Fits(d, a) THEN Throw
           ELSE /\ message' = [info |-> InfoText(Info(name, Sizes(d, a))),
                               units |-> Bytes(t, Flat(d, a))]
                /\ stage' = "sent"
                /\ UNCHANGED <<file, buffer, result>>
    /\ UNCHANGED <<array, target>>

(***************************************************************************)
(* ZeroMQPipe::read: from_string_view and the check of the name, then      *)
(* data_from_message checks the size of the data and copies as many        *)
(* elements as the message has bytes: for elements wider than a byte the   *)
(* copy goes on behind them.  The bytes of a short message are in the      *)
(* message object, and so is what follows them up to InPlace; a copy that  *)
(* leaves both may read Garbage or crash.                                  *)
(***************************************************************************)
AcceptsShorter(t, n) == Len(message.units) <= n * Width[t]   \* seeded fault
SizeMatches(t, n) == Len(message.units) = n * Width[t]

(* The copied range ends at sizeof(ElementType) times the message.         *)
CopyEnd == Len(message.units) * Width[target.type]
ReadsBeyond == /\ target.dimension > 0
               /\ CopyEnd > Len(message.units)
               /\ CopyEnd > InPlace

MessageSizes == FromStringView(message.info).dimension_sizes

IsFor(name) ==
    /\ ValidName(name)
    /\ Convertible(message.info)
    /\ FromStringView(message.info).name = name

ReceiveScalar(name) ==
    /\ stage = "sent" /\ target.dimension = 0
    /\ path' = [path EXCEPT !.read = name]
    /\ IF ~ IsFor(name) \/ ~ SizeMatches(target.type, 1)
       THEN Throw
       ELSE /\ result' = Values(target.type, 1, message.units)[1]
            /\ stage' = "received"
            /\ UNCHANGED <<message, file, buffer>>
    /\ UNCHANGED <<array, target>>

ReceiveArray(name) ==
    /\ stage = "sent" /\ target.dimension > 0
    /\ path' = [path EXCEPT !.read = name]
    /\ IF ~ IsFor(name) \/ ~ SizeMatches(target.type, NumberOfElements(MessageSizes))
       THEN Throw
       ELSE \/ /\ buffer' = Values(target.type, Len(message.units), message.units)
               /\ stage' = "copied"
               /\ UNCHANGED <<message, file, result>>
            \/ ReadsBeyond /\ Crash
    /\ UNCHANGED <<array, target>>

(* finalise, with the sizes in the message or in the file.                 *)
Finalise(sizes) ==
    IF Len(sizes) # target.dimension THEN Throw
    ELSE IF Product(sizes) > Len(buffer) THEN Throw
    ELSE /\ result' = Nested(sizes, buffer)
         /\ stage' = "received"
         /\ UNCHANGED <<message, file, buffer>>

FinaliseMessage ==
    /\ stage = "copied"
    /\ Finalise(MessageSizes)
    /\ UNCHANGED <<array, target, path>>

-----------------------------------------------------------------------------
(***************************************************************************)
(* NetCDFPipe::write: the address of the value or of the first element of  *)
(* the vector, and the sizes in the file.  Of a vector of vectors that is  *)
(* the address of a vector object.  The library reads what the variable    *)
(* holds from there on, where there may be no memory.                      *)
(***************************************************************************)
Memory == IF array.dimension = 0 THEN Bytes(array.type, << array.value >>)
          ELSE IF array.dimension = 1 THEN Bytes(array.type, array.value)
          ELSE << >>

PutCountOnly(variable) ==                                    \* seeded fault
    /\ stage = "start"
    /\ file' = [variable EXCEPT !.units = First(Product(variable.sizes), Memory)]
    /\ stage' = "stored"
    /\ UNCHANGED <<array, target, path, message, buffer, result>>
Put(variable) ==
    /\ stage = "start"
    /\ LET n == Product(variable.sizes) * Width[variable.type]
       IN  \/ file' = [variable EXCEPT !.units = First(n, Memory)] /\ stage' = "stored"
           \/ n > Len(Memory) /\ UNCHANGED file /\ stage' = "undefined"
    /\ UNCHANGED <<array, target, path, message, buffer, result>>

FileVariable == [type : Type, sizes : FileSizes, units : {<< >>}]

(***************************************************************************)
(* NetCDFPipe::read: the library fills the value, or a flat vector of the  *)
(* number of elements the file has, with all that the file holds.  What    *)
(* does not fit there overwrites other memory.                             *)
(***************************************************************************)
Holds(t, n) == n * Width[t] >= Len(file.units)

GetScalar ==
    /\ stage = "stored" /\ target.dimension = 0
    /\ IF Holds(target.type, 1)
       THEN result' = Values(target.type, 1, file.units)[1] /\ stage' = "got"
       ELSE stage' = "undefined" /\ UNCHANGED result
    /\ UNCHANGED <<array, target, path, message, file, buffer>>

GetArray ==
    /\ stage = "stored" /\ target.dimension > 0
    /\ LET n == NumberOfElements(file.sizes)
       IN  IF Holds(target.type, n)
           THEN buffer' = Values(target.type, n, file.units) /\ stage' = "filled"
           ELSE stage' = "undefined" /\ UNCHANGED buffer
    /\ UNCHANGED <<array, target, path, message, file, result>>

FinaliseFile ==
    /\ stage = "filled"
    /\ IF Len(file.sizes) # target.dimension THEN stage' = "refused" /\ UNCHANGED result
       ELSE result' = Nested(file.sizes, buffer) /\ stage' = "got"
    /\ UNCHANGED <<array, target, path, message, file, buffer>>

Next == \/ \E name \in Path : Send(name) \/ ReceiveScalar(name) \/ ReceiveArray(name)
        \/ FinaliseMessage
        \/ \E variable \in FileVariable : Put(variable)
        \/ GetScalar \/ GetArray \/ FinaliseFile

Spec == Init /\ [][Next]_vars

-----------------------------------------------------------------------------
(* All vectors of one dimension have the same size.                        *)
HasShape(sizes, a) ==
    \A n \in DOMAIN sizes :
        IF n = 1 THEN Len(a) = sizes[1]
        ELSE LET vectors == Rows(Len(sizes), a)[n - 1]
             IN  \A i \in DOMAIN vectors : Len(vectors[i]) = sizes[n]

Shape == IF array.dimension = 0 THEN << >> ELSE Sizes(array.dimension, array.value)
Rectangular == HasShape(Shape, array.value)
SameAs == target = [dimension |-> array.dimension, type |-> array.type]
Representable == \A i \in DOMAIN Shape : Shape[i] <= MaxInt

(* Every variable has its type.                                            *)
TypeOK ==
    /\ stage \in {"start", "sent", "copied", "received", "thrown", "crashed", "stored",
                  "filled", "got", "refused", "undefined"}
    /\ target.dimension \in Dimension
    /\ \A i \in DOMAIN message.units : message.units[i][1] = array.type
    /\ stage = "sent" => Len(MessageSizes) = Max({1, array.dimension})

(***************************************************************************)
(* A rectangular array sent through ZeroMQ and read with the path, the     *)
(* dimension and the type it has arrives as it was, empty dimensions       *)
(* included, unless the copy out of the message crashes: nothing throws,   *)
(* and values, arrays of bytes and what a message object holds by itself   *)
(* always arrive (prepare, finalise, data_from_message).                   *)
(***************************************************************************)
SamePath == ValidName(path.write) /\ path.read \in {Nothing, path.write}

RoundTrip ==
    /\ Rectangular /\ Representable /\ SameAs /\ SamePath
    /\ stage \in {"received", "thrown", "crashed"}
    => \/ stage = "received" /\ result = array.value
       \/ stage = "crashed" /\ ReadsBeyond

(***************************************************************************)
(* Whatever it is read as, what a read returns has the elements that were  *)
(* sent, in order, and the dimension asked for; otherwise it has thrown or *)
(* crashed.                                                                *)
(***************************************************************************)
ElementsKept ==
    stage = "received" /\ Rectangular /\ target.type = array.type
        => Elements(target.dimension, result) = Elements(array.dimension, array.value)

(***************************************************************************)
(* What a read returns was written under the path that it asked for: the   *)
(* path, the sizes and the marks between them are told apart (to_string,   *)
(* from_string_view and validate_name, zeromq_pipe.cpp).                   *)
(***************************************************************************)
PathKept == stage \in {"copied", "received"} => path.read = path.write

(* An array whose type and sizes are those of the variable in the file     *)
(* comes back from the file, for values and vectors of values.             *)
FileMatches == file.type = array.type /\ file.sizes = Shape
FileRoundTrip ==
    stage = "got" /\ FileMatches /\ SameAs /\ array.dimension < 2
        => result = array.value

-----------------------------------------------------------------------------
(***************************************************************************)
(* "Double check that the remaining elements are consistently sized"       *)
(* (vector_interface.h): a ragged array is not sent.  The code breaks it:  *)
(* the check never looks at the remaining elements.                        *)
(***************************************************************************)
RaggedRejected == stage = "sent" => Rectangular

(***************************************************************************)
(* "Assign ... from a flat vector that has the correct amount of elements" *)
(* (vector_interface.h).  data_from_message breaks it: it fills the vector *)
(* with one element for each byte of the message, beyond its end.          *)
(***************************************************************************)
CorrectAmount == stage = "copied" => Len(buffer) = NumberOfElements(MessageSizes)

(***************************************************************************)
(* "ND stl vector are supported" (vector_interface.h): a rectangular array *)
(* comes back from a variable with its type and sizes.  NetCDFPipe::write  *)
(* breaks it: it never flattens.                                           *)
(***************************************************************************)
FileSupportsND ==
    stage = "got" /\ FileMatches /\ SameAs /\ Rectangular => result = array.value
=============================================================================
