------------------------- MODULE MCTrafficGenerator -------------------------
(* Four interfaces of both directions, one of them without any field.       *)
EXTENDS TrafficGenerator

MCInterfaces ==
  << [name |-> "a", dir |-> "IN",  empty |-> FALSE],
     [name |-> "b", dir |-> "OUT", empty |-> FALSE],
     [name |-> "c", dir |-> "IN",  empty |-> TRUE],
     [name |-> "d", dir |-> "IN",  empty |-> FALSE] >>
=============================================================================
