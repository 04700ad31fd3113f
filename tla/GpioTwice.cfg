\* Two tasks get the same pin at the same time.
CONSTANTS
    Tasks = {t1, t2}
    Nobody = Nobody
    GpioPins = {0, 1, 16}
    PowerLed = 1
    Objects = {1, 2, 3}
    SamePin = TRUE
SPECIFICATION Spec
INVARIANT OneObjectPerPin
