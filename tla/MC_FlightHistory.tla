--------------------------- MODULE MC_FlightHistory ---------------------------
EXTENDS FlightHistory

\* One value on each side of each threshold: 0 and 20, the liftoff height 5,
\* the window -5..5, the apogee velocity 0, its limit 300.
MCAccs == {0, 1, 19, 20}
MCVels == {-6, -5, 0, 1, 5, 6, 299, 300}
MCHeights == {4, 5}

\* States that differ only in the absolute time have the same future: the
\* machine compares differences of times with hold times, and an edge counts
\* only while last_state is TRUE.
Cap(age, hold) == IF age < hold THEN age ELSE hold
Age(d) == IF detector[d].last_state
          THEN Cap(now - detector[d].last_edge_time, MinHold[d]) ELSE -1
SinceAge(since, hold) == IF since = -1 THEN -1 ELSE Cap(now - since, hold)

RelativeTime ==
  <<pc, sp_state, offset_sample_counter, state, ignition_count, burnout_count,
    trace, [d \in DOMAIN detector |-> Age(d)], heightFirst,
    SinceAge(accSince, 50), SinceAge(heightSince, 50),
    SinceAge(stillSince, 1000)>>
===============================================================================
