------------------------------ MODULE MCSalloc ------------------------------
(* Model checking Salloc: requests on both sides of a byte boundary.       *)
EXTENDS Salloc

MCRequests ==
    [op : {"alloc"}, sec : {SECTOR_NIL, 0, 6, 8}, size : {0, 1, 3}]
      \cup [op : {"alloc"}, sec : {5}, size : {12}]
      \cup [op : {"free"}, sec : {0, 7}, size : {1, 3}]
      \cup [op : {"highest"}, sec : {0}, size : {0}]

=============================================================================
