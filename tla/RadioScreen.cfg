SPECIFICATION FairSpec
CONSTANTS
    Modes = {"replies", "app", "display_offset56_low_bit_test",
             "display_offset59_low_all_visible_test", "display_offsets8_33_observed_probe",
             "status_led_observed_scan", "backlight_timeout_wake_test"}
    Screens = {s1, s2}
    ModeScreen = parrot_screen
    None = none
    MaxVolume = 2
    Keys = 4
    Calls = 4
    Losses = 2
    SendsFail = FALSE
INVARIANT NothingExperimentalLeft
PROPERTIES HomeComesBack AppScreenComesBack ScanShownWhole ScanEnds
CHECK_DEADLOCK FALSE
