------------------------------ MODULE MCMessage ------------------------------
(* Instance of Message: one object of every type, strings of every length  *)
(* class, containers of scalars, of strings and of containers, an object   *)
(* re-used after the empty string, and structs with keys that are empty or *)
(* no strings.                                                             *)
EXTENDS Message

Byte  == Scalar("uint8", 7)
Short == String(1)
Reused == setValue(String(0), String(2))
Inner == Array(<<Byte, Short>>)

Plain == {Byte, Scalar("sint16", 7), Scalar("uint32", 7), Scalar("float", 7),
          Scalar("double", 7), Bool(0), Bool(1)}
Strings == {String(0), Short, String(300), String(70000), Reused}
Containers == {Array(<<>>), Inner, Array(<<Inner, String(0)>>),
               Struct(<<>>), Struct(<<Short, Byte>>), Struct(<<Short, Inner>>),
               Struct(<<String(0), Byte>>), Struct(<<Byte, Byte>>)}
MCValues == Plain \cup Strings \cup Containers
=============================================================================
