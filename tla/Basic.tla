-------------------------------- MODULE Basic --------------------------------
(***************************************************************************)
(* Which conversions between basic types are written without being asked   *)
(* for.  A kind is known by its class and by the bits that its values      *)
(* take, and the code goes by a size of its own.                           *)
(***************************************************************************)
EXTENDS Naturals

Signed   == {"int", "int8", "int16", "int32", "int64"}
Unsigned == {"uint", "uint8", "uint16", "uint32", "uint64", "uintptr"}
Floats   == {"float32", "float64"}
Complex  == {"complex64", "complex128"}
Kinds    == Signed \cup Unsigned \cup Floats \cup Complex \cup {"bool", "string"}

(* types.BasicInfo without the bit for unsigned. *)
ClassOf(kind) ==
  CASE kind \in Signed \cup Unsigned -> "integer"
    [] kind \in Floats  -> "float"
    [] kind \in Complex -> "complex"
    [] OTHER -> kind

(* kindSizeOf: int and uint count as they are where they are smallest. *)
KindSizeOf(kind) ==
  CASE kind = "bool" -> 1
    [] kind \in {"int8", "uint8"} -> 8
    [] kind \in {"int16", "uint16"} -> 16
    [] kind \in {"int", "int32", "uint", "uint32", "float32"} -> 32
    [] kind \in {"int64", "uint64", "float64", "complex64"} -> 64
    [] kind = "complex128" -> 128
    [] OTHER -> 999

(* types.ConvertibleTo, of Go. *)
Convertible(x, y) ==
  \/ ClassOf(x) = ClassOf(y)
  \/ {ClassOf(x), ClassOf(y)} \subseteq {"integer", "float"}
  \/ ClassOf(x) = "integer" /\ y = "string"

(* Mutant: signs are not looked at. *)
FitsSize(x, y) == KindSizeOf(x) <= KindSizeOf(y)

Fits(x, y) ==
  /\ x \in Unsigned /\ y \notin Unsigned => KindSizeOf(x) <= KindSizeOf(y) \div 2
  /\ KindSizeOf(x) <= KindSizeOf(y)

(* tryBasic and checkConvertible, of types that may have names of their own: *)
(* assigned or converted, refused, or left to others.                        *)
TryBasic(x, y) ==
  IF ~Convertible(x, y) \/ (ClassOf(x) = "integer" /\ y = "string") THEN "skip"
  ELSE IF ClassOf(x) = ClassOf(y) /\ Fits(x, y) THEN "convert" ELSE "refuse"
=============================================================================
