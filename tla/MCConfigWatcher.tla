--------------------------- MODULE MCConfigWatcher ---------------------------
(***************************************************************************)
(* Small instances of ConfigWatcher: two configurations, and files that    *)
(* are wrong in each of the ways the code tells apart.                     *)
(***************************************************************************)
EXTENDS ConfigWatcher

MCConfig == {"c1", "c2"}

File(yaml, services, publishers, c) ==
  [yaml |-> yaml, services |-> services, publishers |-> publishers, cfg |-> c]

MCDocument ==
  {File(TRUE, TRUE, TRUE, c) : c \in MCConfig}
    \cup {File(FALSE, TRUE, TRUE, "c1"), File(TRUE, FALSE, TRUE, "c1"),
          File(TRUE, TRUE, FALSE, "c1")}

\* The publisher section is understood.
MCNoPublishers == {d \in MCDocument : d.publishers}

\* The file may be missing.
MCFileOrNot == MCDocument \cup {NoFile}
MCGoodOrNot == MCNoPublishers \cup {NoFile}

=============================================================================
