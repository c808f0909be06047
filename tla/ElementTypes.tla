--------------------------- MODULE ElementTypes ---------------------------
(***************************************************************************)
(* The elementary types of CDL (NetCDFElementaryType, src/src/types.h) and *)
(* the tables that the program has about them: which words name one        *)
(* (type_for_token, syntax.cpp), with which conversion the parser reads a  *)
(* number of the type and what type it writes on it (Parser::parse_number, *)
(* parser.cpp), and the C++ type of the generated code (cpp_name_for_type, *)
(* syntax.cpp).                                                            *)
(***************************************************************************)
EXTENDS Naturals

Floating == {"float", "real", "double"}
Numeric == {"byte", "ubyte", "short", "ushort", "int", "uint", "long", "int64", "uint64"}
             \cup Floating
Textual == {"char", "string"}
Elementary == Numeric \cup Textual  \* name_for_type gives these words back

(* NetCDFElementaryType::Default, what any other word gives.               *)
Default == "unknown"

(* The conversion that parse_number calls, also for double.                *)
Conversion(type) ==
    CASE type \in {"byte", "short", "int", "long"} -> "stoi"
      [] type \in {"ubyte", "ushort", "uint", "uint64"} -> "stoul"
      [] type = "int64" -> "stol"
      [] type \in Floating -> "stof"

(* The type that a number is marked with.                                  *)
Marked(type) == IF type \in {"int64", "uint64"} THEN "float" ELSE type

CppName(type) ==
    CASE type \in {"char", "byte"} -> "int8_t"
      [] type = "ubyte" -> "uint8_t"
      [] type = "short" -> "int16_t"
      [] type = "ushort" -> "uint16_t"
      [] type = "int" -> "int"
      [] type = "uint" -> "int32_t"
      [] type \in {"long", "int64"} -> "int64_t"
      [] type = "uint64" -> "uint64_t"
      [] type = "float" -> "float"
      [] type \in {"real", "double"} -> "double"
      [] type = "string" -> "std::string"
      [] OTHER -> "unknown-type"
=============================================================================
