SPECIFICATION Spec
CONSTANT Modes <- SomeModes
INVARIANT SettingsApply
