\* Up to two guests are connected and hear a file, a third may join.  Persons
\* may stop: two acts out of joins, files loaded and dropped, pages closed, stops,
\* and a third one, a load or a drop, with one guest.  One write of a loop may be
\* late (Late), and none with three guests, where those who were connected first
\* answer an offer at once (Hurried).
SPECIFICATION MCSpec
CONSTANTS
  None = None
  Owner = o
  Guests = {g1, g2, g3}
  Settlers = {g1, g2}
  Tracks = {t1, t2, t3}
  Loaded = {t1}
  MaxActs = 3
SYMMETRY Symmetry
CHECK_DEADLOCK FALSE
INVARIANTS TypeOK EndsAgree PlaysWhatIsSent SilentWithoutRoom MessageFindsPeer EveryChangeIsOffered Removable JoinConnects
