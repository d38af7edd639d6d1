---------------------------- MODULE TensorTypes ----------------------------
(***************************************************************************)
(* The tables of inference.cpp between the element types of larod and of   *)
(* TensorFlow, and the sizes of the former. Types are named without their  *)
(* prefixes LAROD_TENSOR_DATA_TYPE_ and DT_. A type in no row of a table   *)
(* takes the default of its switch.                                        *)
(***************************************************************************)
EXTENDS Naturals

\* Those of the same name in both.
Common == {"BOOL", "UINT8", "INT8", "UINT16", "INT16", "UINT32", "INT32",
           "UINT64", "INT64"}
LarodTypes == Common \union {"INVALID", "UNSPECIFIED", "FLOAT16", "FLOAT32",
                             "FLOAT64"}
TfTypes == Common \union {"INVALID", "VARIANT", "FLOAT", "HALF", "DOUBLE",
                          "STRING"}

\* Without a row for FLOAT16 and FLOAT64.
LarodToTfDataType == [l \in LarodTypes |->
    CASE l \in Common      -> l
      [] l = "UNSPECIFIED" -> "VARIANT"
      [] l = "FLOAT32"     -> "FLOAT"
      [] OTHER             -> "INVALID"]

\* No part of the program calls it.
TfToLarodDataType == [d \in TfTypes |->
    CASE d \in Common  -> d
      [] d = "VARIANT" -> "UNSPECIFIED"
      [] d = "FLOAT"   -> "FLOAT32"
      [] OTHER         -> "INVALID"]

\* Mutant: the row of FLOAT32 is missing.
LarodDataTypeSizeNoFloat32 == [l \in LarodTypes |->
    CASE l \in {"BOOL", "INT8", "UINT8", "UNSPECIFIED"} -> 1
      [] l \in {"FLOAT16", "INT16", "UINT16"}           -> 2
      [] l \in {"INT32", "UINT32"}                      -> 4
      [] l \in {"FLOAT64", "INT64", "UINT64"}           -> 8
      [] OTHER                                          -> 0]

LarodDataTypeSize == [l \in LarodTypes |->
    CASE l \in {"BOOL", "INT8", "UINT8", "UNSPECIFIED"} -> 1
      [] l \in {"FLOAT16", "INT16", "UINT16"}           -> 2
      [] l \in {"FLOAT32", "INT32", "UINT32"}           -> 4
      [] l \in {"FLOAT64", "INT64", "UINT64"}           -> 8
      [] l = "INVALID"                                  -> 0]

\* What the sizes should be: the width in bits that the name of a type says; a
\* BOOL takes a byte, and UNSPECIFIED data is counted in bytes.
Bits == [l \in LarodTypes \ {"INVALID"} |->
    CASE l \in {"BOOL", "UNSPECIFIED"}         -> 8
      [] l \in {"INT8", "UINT8"}               -> 8
      [] l \in {"INT16", "UINT16", "FLOAT16"}  -> 16
      [] l \in {"INT32", "UINT32", "FLOAT32"}  -> 32
      [] l \in {"INT64", "UINT64", "FLOAT64"}  -> 64]
=============================================================================
