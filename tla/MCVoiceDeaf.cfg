SPECIFICATION Spec
CONSTANTS
    a = a
    b = b
    t1 = t1
    t2 = t2
    Songs <- TwoSongs
    NoSong = NoSong
    Speakers = {s1}
    Nobody = Nobody
    Turns <- TwoTurns
    MaxGen = 2
    MaxResuming = 1
    TextWake = FALSE
INVARIANT ArmedIsAudible
SYMMETRY Interchangeable
