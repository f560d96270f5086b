----------------------------- MODULE MCStorage -----------------------------
(* Storage for TLC. *)
EXTENDS Storage

Tab(s, h, a, g, n, z, l, e) ==
    [sig |-> s, header_crc |-> h, array_crc |-> a, guid |-> g, entry_num |-> n,
     entry_size |-> z, array_lba |-> l, entries |-> e]
MCGood(g, e) == Tab(TRUE, TRUE, TRUE, g, 128, 128, -33, e)

(* Both copies good, one of them lost, torn, or with sizes that are odd or *)
(* too large, none at all, and a backup that was not kept in step with the *)
(* primary.                                                                *)
MCDrives(g, o, e) ==
    LET good == MCGood(g, {e})
    IN  {<<p, good>> : p \in {good, Tab(FALSE, FALSE, FALSE, g, 0, 0, 0, {}),
                              Tab(TRUE, FALSE, TRUE, o, 128, 128, -33, {e}),
                              Tab(TRUE, TRUE, FALSE, o, 128, 128, -33, {e}),
                              Tab(TRUE, TRUE, TRUE, o, 128, 64, -33, {e})}}
        \union {<<good, b>> : b \in {Tab(FALSE, FALSE, FALSE, g, 0, 0, 0, {}), MCGood(o, {e}), MCGood(o, {}),
                                     Tab(TRUE, TRUE, TRUE, o, 256, 128, -65, {e})}}
        \union {<<Tab(TRUE, TRUE, TRUE, g, 3, 128, -2, {e}), Tab(TRUE, TRUE, TRUE, g, 128, 128, -40, {e})>>,
                <<Tab(FALSE, TRUE, TRUE, g, 128, 128, -33, {e}), Tab(FALSE, TRUE, TRUE, g, 128, 128, -33, {e})>>}

MCMachines == {<<>>, <<<<>>>>}
    \union {<<<<d>>>> : d \in MCDrives("A", "B", "r")}
    \union {<<<<d>>, <<>>, <<f>>>> : d \in MCDrives("A", "B", "r"), f \in MCDrives("B", "A", "r")}
    \union {<<<<d, d>>>> : d \in MCDrives("A", "B", "r")}
=============================================================================
